---- MODULE Spec2Model ----
(***************************************************************************)
(* Model of the browser proxy of alex-assist:                              *)
(*   backend/app/services/browser_proxy.py  (BrowserProxyService)          *)
(*   backend/app/routers/browser.py         (GET /api/browser/proxy)       *)
(*                                                                         *)
(* Strings are sequences of lexical tokens (each token a TLA+ string), so  *)
(* that parsing, lower-casing, prefix tests and formatting are computed    *)
(* and not assumed.  Optional values are None == <<>> or Some(v) == <<v>>. *)
(***************************************************************************)
EXTENDS Naturals, Sequences, FiniteSets, TLC

VARIABLES
    pc,            \* position of the one proxy_page/fetch_page call
    url,           \* the url query parameter of the call
    upstream,      \* what the network answers to this call's GET
    service,       \* the module-level BrowserProxyService instance
    locals,        \* fetch_page's local variables
    trace,         \* the pipeline stages entered so far, in order
    net,           \* outbound network operations performed so far, in order
    result,        \* fetch_page's returned triple, None until it returns
    raised,        \* exception that left fetch_page, None if none
    http,          \* the endpoint's HTTP answer, None until it answers
    probe          \* a direct call of one method: its arguments and its result

vars == <<pc, url, upstream, service, locals, trace, net, result, raised, http, probe>>

None == <<>>
Some(v) == <<v>>

Range(s) == {s[i] : i \in 1..Len(s)}

Min(a, b) == IF a < b THEN a ELSE b

\* s[:n] of Python
Prefix(s, n) == SubSeq(s, 1, Min(n, Len(s)))

\* s[n:] of Python (n counted from 0)
Suffix(s, n) == SubSeq(s, n + 1, Len(s))

\* str.find: 1-based index of the first token of s in set S, 0 when absent
FirstIdx(s, S) ==
    IF \E i \in 1..Len(s) : s[i] \in S
    THEN CHOOSE i \in 1..Len(s) : s[i] \in S /\ \A j \in 1..(i - 1) : s[j] \notin S
    ELSE 0

\* str.rfind: 1-based index of the last token of s in set S, 0 when absent
LastIdx(s, S) ==
    IF \E i \in 1..Len(s) : s[i] \in S
    THEN CHOOSE i \in 1..Len(s) : s[i] \in S /\ \A j \in (i + 1)..Len(s) : s[j] \notin S
    ELSE 0

\* str.startswith
StartsWith(s, p) == Len(s) >= Len(p) /\ SubSeq(s, 1, Len(p)) = p

(***************************************************************************)
(* URL text.  A URL is a sequence of these tokens.                         *)
(***************************************************************************)
LetterWords == {"http", "https", "HTTP", "ftp", "javascript", "localhost", "LOCALHOST",
                "example", "com", "user", "a", "b", "x"}
DigitWords == {"0", "1", "10", "127", "168", "169", "172", "192", "200", "254", "8080"}
Puncts == {":", "/", ".", "..", "@", "?", "#", "[", "]"}

\* str.lower on one token
LowerTok(t) ==
    CASE t = "HTTP" -> "http"
      [] t = "LOCALHOST" -> "localhost"
      [] OTHER -> t

\* str.lower
Lower(s) == [i \in 1..Len(s) |-> LowerTok(s[i])]

\* urllib.parse.urlsplit as called by urlparse(url), in its steps: the scheme
\* before the first ":" at index i, when it is a well-formed scheme name
SplitScheme(u, i) ==
    IF /\ i > 1
       /\ u[1] \in LetterWords
       /\ \A j \in 1..(i - 1) : u[j] \in LetterWords \cup DigitWords \cup {"."}
    THEN [scheme |-> Lower(SubSeq(u, 1, i - 1)), rest |-> Suffix(u, i)]
    ELSE [scheme |-> <<>>, rest |-> u]

\* s cut before its token at index d (the whole of s when d = 0)
Cut(s, d) ==
    IF d = 0 THEN [found |-> FALSE, head |-> s, tail |-> <<>>]
    ELSE [found |-> TRUE, head |-> SubSeq(s, 1, d - 1), tail |-> Suffix(s, d - 1)]

\* the authority after "//", up to the first of / ? #
SplitNetloc(rest) ==
    IF StartsWith(rest, <<"/", "/">>)
    THEN Cut(Suffix(rest, 2), FirstIdx(Suffix(rest, 2), {"/", "?", "#"}))
    ELSE [found |-> FALSE, head |-> <<>>, tail |-> rest]

ParseResult(scheme, netloc, f, q) ==
    [ok |-> ~(("[" \in Range(netloc)) # ("]" \in Range(netloc))),
     scheme |-> scheme, netloc |-> netloc, path |-> q.head,
     query |-> Suffix(q.tail, 1), fragment |-> Suffix(f.tail, 1),
     hasQuery |-> q.found, hasFragment |-> f.found]

SplitQuery(scheme, netloc, f) ==
    ParseResult(scheme, netloc, f, Cut(f.head, FirstIdx(f.head, {"?"})))

SplitFragment(scheme, n) ==
    SplitQuery(scheme, n.head, Cut(n.tail, FirstIdx(n.tail, {"#"})))

SplitAuthority(s) == SplitFragment(s.scheme, SplitNetloc(s.rest))

\* urllib.parse.urlparse(u); ok = FALSE stands for the ValueError raised on
\* an authority with an unbalanced bracket
urlparse(u) == SplitAuthority(SplitScheme(u, FirstIdx(u, {":"})))

\* the host inside the host-and-port text: the bracketed part, or the part
\* before the first ":"
HostOf(hostinfo, bracketed) ==
    IF FirstIdx(hostinfo, {"["}) # 0
    THEN Cut(bracketed, FirstIdx(bracketed, {"]"})).head
    ELSE Cut(hostinfo, FirstIdx(hostinfo, {":"})).head

\* netloc.rpartition('@')
HostInfo(netloc) == Suffix(netloc, LastIdx(netloc, {"@"}))

\* ParseResult.hostname: the host of the authority, lower-cased; <<>> is None
hostname(parsed) ==
    Lower(HostOf(HostInfo(parsed.netloc),
                 Suffix(HostInfo(parsed.netloc), FirstIdx(HostInfo(parsed.netloc), {"["}))))

\* all([result.scheme in ['http', 'https'], result.netloc])
all_valid(parsed) ==
    IF ~parsed.ok THEN FALSE
    ELSE parsed.scheme \in {<<"http">>, <<"https">>} /\ parsed.netloc # <<>>

\* BrowserProxyService._is_valid_url
_is_valid_url(u) == all_valid(urlparse(u))

blocked_hosts == {<<"localhost">>,
                  <<"127", ".", "0", ".", "0", ".", "1">>,
                  <<"0", ".", "0", ".", "0", ".", "0">>,
                  <<":", ":", "1">>}

\* the tests on the hostname letting a missing hostname through
is_internal_host_open(host) ==
    IF host = <<>> THEN FALSE
    ELSE IF Lower(host) \in blocked_hosts THEN TRUE
    ELSE IF \/ StartsWith(host, <<"10", ".">>)
            \/ StartsWith(host, <<"192", ".", "168", ".">>)
            \/ StartsWith(host, <<"172", ".">>)
         THEN TRUE
    ELSE FALSE

\* the tests of _is_internal_url on the hostname (lines 321-339)
is_internal_host(host) ==
    IF host = <<>> THEN TRUE
    ELSE IF Lower(host) \in blocked_hosts THEN TRUE
    ELSE IF \/ StartsWith(host, <<"10", ".">>)
            \/ StartsWith(host, <<"192", ".", "168", ".">>)
            \/ StartsWith(host, <<"172", ".">>)
         THEN TRUE
    ELSE FALSE

\* _is_internal_url testing the whole authority where it should test the host
_is_internal_url_netloc(u) ==
    IF ~urlparse(u).ok THEN TRUE ELSE is_internal_host(Lower(urlparse(u).netloc))

\* BrowserProxyService._is_internal_url
_is_internal_url(u) ==
    IF ~urlparse(u).ok THEN TRUE ELSE is_internal_host(hostname(urlparse(u)))

(***************************************************************************)
(* Request URLs: scheme part, authority (userinfo, host, port) and path,   *)
(* written out as text and then parsed by urlparse.                        *)
(***************************************************************************)
SchemeParts == {<<>>, <<"http", ":">>, <<"https", ":">>, <<"HTTP", ":">>, <<"ftp", ":">>}
UserInfos == {<<>>, <<"user", "@">>}
HostTexts == {<<>>,
              <<"example", ".", "com">>,
              <<"localhost">>,
              <<"LOCALHOST">>,
              <<"127", ".", "0", ".", "0", ".", "1">>,
              <<"0", ".", "0", ".", "0", ".", "0">>,
              <<"[", ":", ":", "1", "]">>,
              <<"[", ":", ":", "1">>,
              <<"10", ".", "0", ".", "0", ".", "1">>,
              <<"192", ".", "168", ".", "0", ".", "1">>,
              <<"172", ".", "200", ".", "0", ".", "1">>}
PortTexts == {<<>>, <<":", "8080">>}
PathTexts == {<<>>, <<"/", "a", "/", "b">>}
PortedHosts == {<<>>, <<"example", ".", "com">>, <<"localhost">>}
AuthorityTexts ==
    {<<>>}
    \cup {<<"/", "/">> \o ui \o h : ui \in UserInfos, h \in HostTexts}
    \cup {<<"/", "/">> \o h \o p : h \in PortedHosts, p \in PortTexts}
Urls == {s \o a \o p : s \in SchemeParts, a \in AuthorityTexts, p \in PathTexts}

(***************************************************************************)
(* HTTP headers: a mapping from header names to values (token sequences).  *)
(***************************************************************************)
\* str.lower on a header name
LowerName(n) ==
    CASE n = "Content-Type" -> "content-type"
      [] n = "Content-Encoding" -> "content-encoding"
      [] n = "CONTENT-ENCODING" -> "content-encoding"
      [] n = "Content-Length" -> "content-length"
      [] n = "Transfer-Encoding" -> "transfer-encoding"
      [] n = "X-Frame-Options" -> "x-frame-options"
      [] n = "X-FRAME-OPTIONS" -> "x-frame-options"
      [] n = "Content-Security-Policy" -> "content-security-policy"
      [] n = "X-Content-Security-Policy" -> "x-content-security-policy"
      [] n = "X-WebKit-CSP" -> "x-webkit-csp"
      [] n = "Set-Cookie" -> "set-cookie"
      [] n = "X-Custom" -> "x-custom"
      [] n = "Cache-Control" -> "cache-control"
      [] OTHER -> n

\* httpx.Headers.get(name, ""): the lookup ignores the case of the name
HeadersGet(h, name) ==
    IF \E k \in DOMAIN h : LowerName(k) = LowerName(name)
    THEN h[CHOOSE k \in DOMAIN h : LowerName(k) = LowerName(name)]
    ELSE <<>>

\* httpx.Headers.items(): the view has lower-cased names
HeadersItems(h) ==
    [n \in {LowerName(k) : k \in DOMAIN h} |->
        h[CHOOSE k \in DOMAIN h : LowerName(k) = n]]

\* str.lower on one token of a header value
LowerValTok(t) ==
    CASE t = "TEXT/HTML" -> "text/html"
      [] t = "UTF-8" -> "utf-8"
      [] t = "ISO-8859-1" -> "iso-8859-1"
      [] t = "GZIP" -> "gzip"
      [] t = "Windows-1252" -> "windows-1252"
      [] t = "Charset=" -> "charset="
      [] OTHER -> t

\* str.lower on a header value
LowerVal(v) == [i \in 1..Len(v) |-> LowerValTok(v[i])]

(***************************************************************************)
(* Exceptions.  An exception is [type, status, detail]; Mro is the class   *)
(* and its base classes, by which an except clause matches.                *)
(***************************************************************************)
Exc(type, status, detail) == [type |-> type, status |-> status, detail |-> detail]

Mro(type) ==
    CASE type = "ConnectTimeout" ->
            {"ConnectTimeout", "TimeoutException", "TransportError", "HTTPError", "Exception"}
      [] type = "ReadTimeout" ->
            {"ReadTimeout", "TimeoutException", "TransportError", "HTTPError", "Exception"}
      [] type = "ConnectError" ->
            {"ConnectError", "TransportError", "HTTPError", "Exception"}
      [] type = "HTTPStatusError" -> {"HTTPStatusError", "HTTPError", "Exception"}
      [] OTHER -> {type, "Exception"}

Triple(document, error, headers) ==
    [document |-> document, error |-> error, headers |-> headers]

NoResult == Triple(None, None, None)

\* except_clauses with a timeout answered by an empty triple
except_clauses_empty_timeout(e) ==
    IF "TimeoutException" \in Mro(e.type)
    THEN Some(Triple(None, None, None))
    ELSE IF "HTTPStatusError" \in Mro(e.type)
    THEN Some(Triple(None, Some(<<"HTTP error: ", ToString(e.status)>>), None))
    ELSE IF "Exception" \in Mro(e.type)
    THEN Some(Triple(None, Some(<<"Error fetching page: ">> \o e.detail), None))
    ELSE None

\* except_clauses with the clause for Exception placed first
except_clauses_generic_first(e) ==
    IF "Exception" \in Mro(e.type)
    THEN Some(Triple(None, Some(<<"Error fetching page: ">> \o e.detail), None))
    ELSE IF "TimeoutException" \in Mro(e.type)
    THEN Some(Triple(None, Some(<<"Request timed out">>), None))
    ELSE IF "HTTPStatusError" \in Mro(e.type)
    THEN Some(Triple(None, Some(<<"HTTP error: ", ToString(e.status)>>), None))
    ELSE None

\* except_clauses without the clause for Exception
except_clauses_no_generic(e) ==
    IF "TimeoutException" \in Mro(e.type)
    THEN Some(Triple(None, Some(<<"Request timed out">>), None))
    ELSE IF "HTTPStatusError" \in Mro(e.type)
    THEN Some(Triple(None, Some(<<"HTTP error: ", ToString(e.status)>>), None))
    ELSE None

\* the except clauses of fetch_page, tried in order; Some(triple) when one
\* matches, None when the exception leaves fetch_page
except_clauses(e) ==
    IF "TimeoutException" \in Mro(e.type)
    THEN Some(Triple(None, Some(<<"Request timed out">>), None))
    ELSE IF "HTTPStatusError" \in Mro(e.type)
    THEN Some(Triple(None, Some(<<"HTTP error: ", ToString(e.status)>>), None))
    ELSE IF "Exception" \in Mro(e.type)
    THEN Some(Triple(None, Some(<<"Error fetching page: ">> \o e.detail), None))
    ELSE None

(***************************************************************************)
(* urllib.parse.urljoin on URL text.                                       *)
(***************************************************************************)
uses_relative == {<<>>, <<"http">>, <<"https">>, <<"ftp">>}
uses_netloc == {<<>>, <<"http">>, <<"https">>, <<"ftp">>}

\* str.split("/"): the segments between the "/" tokens
RECURSIVE SplitSlash(_)
SplitSlash(p) ==
    LET i == FirstIdx(p, {"/"})
    IN  IF i = 0 THEN <<p>>
        ELSE <<SubSeq(p, 1, i - 1)>> \o SplitSlash(Suffix(p, i))

\* "/".join(segments)
RECURSIVE JoinSlash(_)
JoinSlash(segs) ==
    IF Len(segs) = 0 THEN <<>>
    ELSE IF Len(segs) = 1 THEN segs[1]
    ELSE segs[1] \o <<"/">> \o JoinSlash(Tail(segs))

\* the loop of urljoin that resolves "." and ".." segments
RECURSIVE ResolveDots(_, _)
ResolveDots(segs, acc) ==
    IF Len(segs) = 0 THEN acc
    ELSE IF segs[1] = <<"..">>
         THEN ResolveDots(Tail(segs), IF Len(acc) = 0 THEN acc ELSE SubSeq(acc, 1, Len(acc) - 1))
    ELSE IF segs[1] = <<".">> THEN ResolveDots(Tail(segs), acc)
    ELSE ResolveDots(Tail(segs), Append(acc, segs[1]))

\* the "//" netloc part urlunsplit puts before the path
WithAuthority(scheme, netloc, path) ==
    IF netloc # <<>> \/ (scheme # <<>> /\ scheme \in uses_netloc
                         /\ ~StartsWith(path, <<"/", "/">>))
    THEN <<"/", "/">> \o netloc
         \o (IF path # <<>> /\ path[1] # "/" THEN <<"/">> ELSE <<>>) \o path
    ELSE path

\* urllib.parse.urlunparse (no params)
urlunparse(scheme, netloc, path, query, fragment) ==
    (IF scheme # <<>> THEN scheme \o <<":">> ELSE <<>>)
    \o WithAuthority(scheme, netloc, path)
    \o (IF query # <<>> THEN <<"?">> \o query ELSE <<>>)
    \o (IF fragment # <<>> THEN <<"#">> \o fragment ELSE <<>>)

\* base_parts = bpath.split('/') without its last segment unless that is ''
BaseParts(parts) ==
    IF parts[Len(parts)] # <<>> THEN SubSeq(parts, 1, Len(parts) - 1) ELSE parts

\* segments[1:-1] = filter(None, segments[1:-1])
FilterInner(segments) ==
    IF Len(segments) <= 2 THEN segments
    ELSE <<segments[1]>>
         \o SelectSeq(SubSeq(segments, 2, Len(segments) - 1), LAMBDA g : g # <<>>)
         \o <<segments[Len(segments)]>>

Segments(bpath, rpath) ==
    IF StartsWith(rpath, <<"/">>) THEN SplitSlash(rpath)
    ELSE FilterInner(BaseParts(SplitSlash(bpath)) \o SplitSlash(rpath))

\* a last segment of . or .. leaves a trailing slash
CloseDots(segments, resolved) ==
    IF segments[Len(segments)] \in {<<".">>, <<"..">>}
    THEN Append(resolved, <<>>) ELSE resolved

OrRoot(path) == IF path = <<>> THEN <<"/">> ELSE path

ResolvedPath(segments) ==
    OrRoot(JoinSlash(CloseDots(segments, ResolveDots(segments, <<>>))))

JoinParsed(ref, b, r, scheme) ==
    IF scheme # b.scheme \/ scheme \notin uses_relative
    THEN [ok |-> TRUE, val |-> ref]
    ELSE IF scheme \in uses_netloc /\ r.netloc # <<>>
         THEN [ok |-> TRUE,
               val |-> urlunparse(scheme, r.netloc, r.path, r.query, r.fragment)]
    ELSE IF r.path = <<>>
         THEN [ok |-> TRUE,
               val |-> urlunparse(scheme, b.netloc, b.path,
                                  IF r.query = <<>> THEN b.query ELSE r.query,
                                  r.fragment)]
    ELSE [ok |-> TRUE,
          val |-> urlunparse(scheme, b.netloc, ResolvedPath(Segments(b.path, r.path)),
                             r.query, r.fragment)]

JoinUrls(ref, b, r) ==
    IF ~b.ok \/ ~r.ok THEN [ok |-> FALSE, val |-> ref]
    ELSE JoinParsed(ref, b, r, IF r.scheme = <<>> THEN b.scheme ELSE r.scheme)

\* urllib.parse.urljoin(base, ref): [ok, val]; ok = FALSE stands for the
\* ValueError urlparse raises
urljoin(base, ref) ==
    IF base = <<>> THEN [ok |-> TRUE, val |-> ref]
    ELSE IF ref = <<>> THEN [ok |-> TRUE, val |-> base]
    ELSE JoinUrls(ref, urlparse(base), urlparse(ref))

(***************************************************************************)
(* HTML text.  A str of HTML is a sequence of units: an element            *)
(* [tag, attrs] (its start tag with its attributes), the <head> and        *)
(* </head> tags, or one character [cp] of text.                            *)
(***************************************************************************)
Elem(tag, attrs) == [tag |-> tag, attrs |-> attrs]
HeadOpen == Elem("<head>", <<>>)
HeadClose == Elem("</head>", <<>>)
Char(cp) == [cp |-> cp]

IsElem(u) == "tag" \in DOMAIN u /\ u.tag \notin {"<head>", "</head>"}

\* the elements the HTML parser places in <head>
HeadTags == {"meta", "link", "base", "title", "script", "style"}

IsHeadElem(u) == IsElem(u) /\ u.tag \in HeadTags

\* BeautifulSoup(html, 'lxml'): soup.head is Some(children) or None, the
\* rest of the content is the body.  A leading run of head elements, with
\* or without a <head> tag before it, is the head; it ends at the first
\* unit that is not a head element.
BeautifulSoup(html) ==
    LET hasOpen == Len(html) > 0 /\ html[1] = HeadOpen
        start == IF hasOpen THEN 2 ELSE 1
        stop == IF \E i \in start..Len(html) : ~IsHeadElem(html[i])
                THEN CHOOSE i \in start..Len(html) :
                        /\ ~IsHeadElem(html[i])
                        /\ \A j \in start..(i - 1) : IsHeadElem(html[j])
                ELSE Len(html) + 1
        children == SubSeq(html, start, stop - 1)
        content == SelectSeq(SubSeq(html, stop, Len(html)),
                             LAMBDA u : u \notin {HeadOpen, HeadClose})
    IN  [head |-> IF hasOpen \/ children # <<>> THEN Some(children) ELSE None,
         body |-> content]

\* str(soup)
str_soup(soup) ==
    (IF soup.head # None THEN <<HeadOpen>> \o soup.head[1] \o <<HeadClose>> ELSE <<>>)
    \o soup.body

\* RewriteTargets without the loop over forms
RewriteTargets_without_form == {<<"a", "href">>, <<"img", "src">>, <<"link", "href">>,
                                <<"script", "src">>}

\* the (tag, attribute) pairs whose value _rewrite_urls resolves
RewriteTargets == {<<"a", "href">>, <<"img", "src">>, <<"link", "href">>,
                   <<"script", "src">>, <<"form", "action">>}

\* soup.find_all(tag, attr=True): the element has the attribute, whatever
\* its value
Matches(u, target) == IsElem(u) /\ u.tag = target[1] /\ target[2] \in DOMAIN u.attrs

\* the attribute a rewrite loop assigns on element u, None if no loop matches
TargetAttr(u) ==
    IF \E t \in RewriteTargets : Matches(u, t)
    THEN Some((CHOOSE t \in RewriteTargets : Matches(u, t))[2])
    ELSE None

\* tag[a] = value
Assign(u, a, value) ==
    Elem(u.tag, [n \in DOMAIN u.attrs |-> IF n = a THEN value ELSE u.attrs[n]])

RewriteAttr(u, a, base_url) == Assign(u, a[1], urljoin(base_url, u.attrs[a[1]]).val)

\* tag[attr] = urljoin(base_url, tag[attr]) on one unit
RewriteUnit(u, base_url) ==
    IF TargetAttr(u) = None THEN u ELSE RewriteAttr(u, TargetAttr(u), base_url)

\* urljoin raises on this unit
RewriteRaises(u, base_url) ==
    TargetAttr(u) # None /\ ~urljoin(base_url, u.attrs[TargetAttr(u)[1]]).ok

RewriteAll(units, base_url) == [i \in 1..Len(units) |-> RewriteUnit(units[i], base_url)]

\* soup.new_tag('base', href=base_url)
base_tag(base_url) == Elem("base", "href" :> base_url)

\* the body of the try block of _rewrite_urls on a parsed soup
rewritten_soup(soup, base_url) ==
    [head |-> IF soup.head # None
              THEN Some(<<base_tag(base_url)>> \o RewriteAll(soup.head[1], base_url))
              ELSE None,
     body |-> RewriteAll(soup.body, base_url)]

\* the units of the document, head first
SoupUnits(soup) == (IF soup.head # None THEN soup.head[1] ELSE <<>>) \o soup.body

AnyRaises(units, base_url) == \E i \in 1..Len(units) : RewriteRaises(units[i], base_url)

\* whether the try block of _rewrite_urls ran to its return
rewrite_succeeds(html, base_url, parser_ok) ==
    parser_ok /\ ~AnyRaises(SoupUnits(BeautifulSoup(html)), base_url)

\* _rewrite_urls returning an empty document when the rewrite fails
_rewrite_urls_discarding(html, base_url, parser_ok) ==
    IF rewrite_succeeds(html, base_url, parser_ok)
    THEN str_soup(rewritten_soup(BeautifulSoup(html), base_url))
    ELSE <<>>

\* BrowserProxyService._rewrite_urls; parser_ok = FALSE stands for
\* BeautifulSoup raising (the lxml parser is not usable)
_rewrite_urls(html, base_url, parser_ok) ==
    IF rewrite_succeeds(html, base_url, parser_ok)
    THEN str_soup(rewritten_soup(BeautifulSoup(html), base_url))
    ELSE html

(***************************************************************************)
(* Header sanitizer.                                                       *)
(***************************************************************************)
unsafe_headers == {"x-frame-options", "content-security-policy",
                   "x-content-security-policy", "x-webkit-csp",
                   "content-encoding", "transfer-encoding", "content-length"}

\* IsSafeHeader comparing the name as received
IsSafeHeader_case_sensitive(key) == key \notin unsafe_headers

\* the test of the loop of _get_safe_headers
IsSafeHeader(key) == LowerName(key) \notin unsafe_headers

\* BrowserProxyService._get_safe_headers
_get_safe_headers(original_headers) ==
    [key \in {k \in DOMAIN original_headers : IsSafeHeader(k)} |-> original_headers[key]]

(***************************************************************************)
(* Bytes.  A bytes value is a sequence of units: one byte B(n), or the     *)
(* ASCII bytes M(u) that spell the markup unit u.                          *)
(***************************************************************************)
B(n) == [b |-> n]
M(u) == [m |-> u]
IsByte(x) == "b" \in DOMAIN x

\* size in bytes of the ASCII text of a markup unit: a comment unit is a long
\* run of padding, any other tag is short
HeadWindow == 2048
DetectWindow == 10000
TagSize == 32
UnitSize(x) ==
    IF IsByte(x) THEN 1
    ELSE IF x.m.tag = "#comment" THEN HeadWindow
    ELSE TagSize

\* bytes[:n]: the units that lie wholly inside the first n bytes
RECURSIVE Slice(_, _)
Slice(bytes, n) ==
    IF Len(bytes) = 0 THEN <<>>
    ELSE IF UnitSize(bytes[1]) > n THEN <<>>
    ELSE <<bytes[1]>> \o Slice(Tail(bytes), n - UnitSize(bytes[1]))

\* a DEFLATE stream holding p in one final stored block: header byte
\* (BFINAL = 1, BTYPE = 00), LEN, NLEN (its complement), data
Deflate(p) == <<B(1), B(Len(p)), B(255 - Len(p))>> \o p

\* gzip member: ID1 ID2, CM = 8, FLG, DEFLATE stream, ISIZE
GzipCompress(p) == <<B(31), B(139), B(8), B(0)>> \o Deflate(p) \o <<B(Len(p))>>

\* zlib stream: CMF FLG, DEFLATE stream, check byte
ZlibCompress(p) == <<B(120), B(156)>> \o Deflate(p) \o <<B(Len(p))>>

\* Brotli stream: window byte, data, end byte
BrotliCompress(p) == <<B(11)>> \o p \o <<B(3)>>

Failed == [ok |-> FALSE, data |-> <<>>, rest |-> <<>>]

\* inflate of a raw DEFLATE stream: stored blocks only, anything else is an
\* error; rest is what follows the final block
RECURSIVE Inflate(_)
Inflate(raw) ==
    IF Len(raw) < 3 \/ ~IsByte(raw[1]) \/ ~IsByte(raw[2]) \/ ~IsByte(raw[3]) THEN Failed
    ELSE LET bfinal == raw[1].b % 2
             btype == (raw[1].b \div 2) % 4
             len == raw[2].b
             nlen == raw[3].b
             more == Inflate(Suffix(raw, 3 + len))
         IN  IF btype # 0 \/ len + nlen # 255 \/ Len(raw) < 3 + len THEN Failed
             ELSE IF bfinal = 1
                  THEN [ok |-> TRUE, data |-> SubSeq(raw, 4, 3 + len),
                        rest |-> Suffix(raw, 3 + len)]
             ELSE IF ~more.ok THEN Failed
             ELSE [ok |-> TRUE, data |-> SubSeq(raw, 4, 3 + len) \o more.data,
                   rest |-> more.rest]

\* gzip.decompress(raw)
gzip_decompress(raw) ==
    LET body == Inflate(Suffix(raw, 4))
    IN  IF Len(raw) < 4 \/ Prefix(raw, 3) # <<B(31), B(139), B(8)>> THEN Failed
        ELSE IF ~body.ok \/ Len(body.rest) = 0 THEN Failed
        ELSE IF body.rest[1] # B(Len(body.data)) THEN Failed
        ELSE [ok |-> TRUE, data |-> body.data, rest |-> <<>>]

\* zlib.decompress(raw, -zlib.MAX_WBITS): raw DEFLATE, no zlib header
zlib_decompress_raw(raw) == Inflate(raw)

\* brotli.decompress(raw)
brotli_decompress(raw) ==
    IF Len(raw) < 2 \/ raw[1] # B(11) \/ raw[Len(raw)] # B(3) THEN Failed
    ELSE [ok |-> TRUE, data |-> SubSeq(raw, 2, Len(raw) - 1), rest |-> <<>>]

\* decompress looking at the Content-Encoding header before the magic bytes
decompress_header_first(raw_content, content_encoding, has_brotli) ==
    LET is_gzip == Prefix(raw_content, 2) = <<B(31), B(139)>>
        is_deflate == \/ Prefix(raw_content, 2) = <<B(120), B(156)>>
                      \/ Prefix(raw_content, 2) = <<B(120), B(1)>>
    IN  IF content_encoding = <<"br">>
        THEN [tried |-> "br",
              content |-> IF has_brotli /\ brotli_decompress(raw_content).ok
                          THEN brotli_decompress(raw_content).data ELSE raw_content]
        ELSE IF is_deflate \/ content_encoding \in {<<"deflate">>, <<"compress">>}
        THEN [tried |-> "deflate",
              content |-> IF zlib_decompress_raw(raw_content).ok
                          THEN zlib_decompress_raw(raw_content).data ELSE raw_content]
        ELSE IF is_gzip
        THEN [tried |-> "gzip",
              content |-> IF gzip_decompress(raw_content).ok
                          THEN gzip_decompress(raw_content).data ELSE raw_content]
        ELSE [tried |-> "none", content |-> raw_content]

\* decompress choosing the decompressor by the Content-Encoding header alone
decompress_by_header(raw_content, content_encoding, has_brotli) ==
    IF content_encoding = <<"gzip">>
    THEN [tried |-> "gzip",
          content |-> IF gzip_decompress(raw_content).ok
                      THEN gzip_decompress(raw_content).data ELSE raw_content]
    ELSE IF content_encoding \in {<<"deflate">>, <<"compress">>}
    THEN [tried |-> "deflate",
          content |-> IF zlib_decompress_raw(raw_content).ok
                      THEN zlib_decompress_raw(raw_content).data ELSE raw_content]
    ELSE IF content_encoding = <<"br">>
    THEN [tried |-> "br",
          content |-> IF has_brotli /\ brotli_decompress(raw_content).ok
                      THEN brotli_decompress(raw_content).data ELSE raw_content]
    ELSE [tried |-> "none", content |-> raw_content]

\* decompress handing on no bytes when the decompressor it tried fails
decompress_dropping(raw_content, content_encoding, has_brotli) ==
    LET is_gzip == Prefix(raw_content, 2) = <<B(31), B(139)>>
        is_deflate == \/ Prefix(raw_content, 2) = <<B(120), B(156)>>
                      \/ Prefix(raw_content, 2) = <<B(120), B(1)>>
    IN  IF is_gzip
        THEN [tried |-> "gzip",
              content |-> IF gzip_decompress(raw_content).ok
                          THEN gzip_decompress(raw_content).data ELSE <<>>]
        ELSE IF is_deflate \/ content_encoding \in {<<"deflate">>, <<"compress">>}
        THEN [tried |-> "deflate",
              content |-> IF zlib_decompress_raw(raw_content).ok
                          THEN zlib_decompress_raw(raw_content).data ELSE <<>>]
        ELSE IF content_encoding = <<"br">>
        THEN [tried |-> "br",
              content |-> IF has_brotli /\ brotli_decompress(raw_content).ok
                          THEN brotli_decompress(raw_content).data ELSE <<>>]
        ELSE [tried |-> "none", content |-> raw_content]

\* decompress going on to the next decompressor when the one it tried fails
decompress_falling_through(raw_content, content_encoding, has_brotli) ==
    LET is_gzip == Prefix(raw_content, 2) = <<B(31), B(139)>>
        is_deflate == \/ Prefix(raw_content, 2) = <<B(120), B(156)>>
                      \/ Prefix(raw_content, 2) = <<B(120), B(1)>>
    IN  IF is_gzip /\ gzip_decompress(raw_content).ok
        THEN [tried |-> "gzip", content |-> gzip_decompress(raw_content).data]
        ELSE IF zlib_decompress_raw(raw_content).ok
        THEN [tried |-> "deflate", content |-> zlib_decompress_raw(raw_content).data]
        ELSE IF has_brotli /\ brotli_decompress(raw_content).ok
        THEN [tried |-> "br", content |-> brotli_decompress(raw_content).data]
        ELSE [tried |-> IF is_gzip THEN "gzip"
                        ELSE IF is_deflate
                                \/ content_encoding \in {<<"deflate">>, <<"compress">>}
                        THEN "deflate"
                        ELSE IF content_encoding = <<"br">> THEN "br" ELSE "none",
              content |-> raw_content]

\* lines 100-137 of fetch_page: the bytes the later stages process, and the
\* decompressor that was tried
decompress(raw_content, content_encoding, has_brotli) ==
    LET is_gzip == Prefix(raw_content, 2) = <<B(31), B(139)>>
        is_deflate == \/ Prefix(raw_content, 2) = <<B(120), B(156)>>
                      \/ Prefix(raw_content, 2) = <<B(120), B(1)>>
    IN  IF is_gzip
        THEN [tried |-> "gzip",
              content |-> IF gzip_decompress(raw_content).ok
                          THEN gzip_decompress(raw_content).data ELSE raw_content]
        ELSE IF is_deflate \/ content_encoding \in {<<"deflate">>, <<"compress">>}
        THEN [tried |-> "deflate",
              content |-> IF zlib_decompress_raw(raw_content).ok
                          THEN zlib_decompress_raw(raw_content).data ELSE raw_content]
        ELSE IF content_encoding = <<"br">>
        THEN [tried |-> "br",
              content |-> IF has_brotli /\ brotli_decompress(raw_content).ok
                          THEN brotli_decompress(raw_content).data ELSE raw_content]
        ELSE [tried |-> "none", content |-> raw_content]

(***************************************************************************)
(* Character decoding.                                                     *)
(***************************************************************************)
Replacement == 65533

\* the codec names the runtime knows, as looked up by bytes.decode
KnownCodecs == {<<"utf-8">>, <<"iso-8859-1">>, <<"windows-1252">>, <<"ascii">>}

\* UTF-8 decoding: ASCII and two-byte sequences; any other byte is invalid
\* and is replaced (errors='replace') or dropped (errors='ignore')
RECURSIVE DecodeUtf8(_, _)
DecodeUtf8(bytes, errors) ==
    IF Len(bytes) = 0 THEN <<>>
    ELSE IF ~IsByte(bytes[1]) THEN <<bytes[1].m>> \o DecodeUtf8(Tail(bytes), errors)
    ELSE IF bytes[1].b < 128 THEN <<Char(bytes[1].b)>> \o DecodeUtf8(Tail(bytes), errors)
    ELSE IF /\ bytes[1].b >= 194 /\ bytes[1].b <= 223
            /\ Len(bytes) >= 2 /\ IsByte(bytes[2])
            /\ bytes[2].b >= 128 /\ bytes[2].b <= 191
         THEN <<Char((bytes[1].b - 192) * 64 + (bytes[2].b - 128))>>
              \o DecodeUtf8(Suffix(bytes, 2), errors)
    ELSE (IF errors = "replace" THEN <<Char(Replacement)>> ELSE <<>>)
         \o DecodeUtf8(Tail(bytes), errors)

\* decoding with a single-byte codec, errors='replace'
DecodeByte(n, codec) ==
    IF n < 128 THEN n
    ELSE IF codec = <<"ascii">> THEN Replacement
    ELSE IF codec = <<"windows-1252">> /\ n = 128 THEN 8364
    ELSE IF codec = <<"windows-1252">> /\ n \in {129, 141, 143, 144, 157} THEN Replacement
    ELSE n

DecodeSingle(bytes, codec) ==
    [i \in 1..Len(bytes) |->
        IF IsByte(bytes[i]) THEN Char(DecodeByte(bytes[i].b, codec)) ELSE bytes[i].m]

\* bytes.decode(encoding, errors='replace'): ok = FALSE stands for the
\* LookupError of an unknown encoding
bytes_decode(bytes, encoding) ==
    LET codec == LowerVal(encoding)
    IN  IF codec \notin KnownCodecs THEN [ok |-> FALSE, text |-> <<>>]
        ELSE IF codec = <<"utf-8">> THEN [ok |-> TRUE, text |-> DecodeUtf8(bytes, "replace")]
        ELSE [ok |-> TRUE, text |-> DecodeSingle(bytes, codec)]

\* decode_content whose fallback drops the bytes UTF-8 cannot decode
decode_content_ignoring(response_content, encoding) ==
    IF bytes_decode(response_content, encoding).ok
    THEN bytes_decode(response_content, encoding).text
    ELSE DecodeUtf8(response_content, "ignore")

\* lines 184-193 of fetch_page
decode_content(response_content, encoding) ==
    IF bytes_decode(response_content, encoding).ok
    THEN bytes_decode(response_content, encoding).text
    ELSE DecodeUtf8(response_content, "replace")

(***************************************************************************)
(* Encoding resolution, lines 141-178 of fetch_page.                       *)
(***************************************************************************)
\* str.strip on a header value: blanks at both ends removed
RECURSIVE Strip(_)
Strip(v) ==
    IF Len(v) > 0 /\ v[1] = " " THEN Strip(Tail(v))
    ELSE IF Len(v) > 0 /\ v[Len(v)] = " " THEN Strip(SubSeq(v, 1, Len(v) - 1))
    ELSE v

\* content_type.lower().split('charset=')[-1].split(';')[0].strip(), or the
\* empty string when the header has no charset=
header_charset(content_type) ==
    LET ct == LowerVal(content_type)
        last == LastIdx(ct, {"charset="})
        after == Suffix(ct, last)
        semi == FirstIdx(after, {";"})
    IN  IF last = 0 THEN <<>>
        ELSE Strip(IF semi = 0 THEN after ELSE SubSeq(after, 1, semi - 1))

low_trust == {<<"iso-8859-1">>, <<"ascii">>}

\* not encoding or encoding.lower() in ['iso-8859-1', 'ascii']
Untrusted(encoding) == encoding = <<>> \/ LowerVal(encoding) \in low_trust

\* what the regex charset=["']?([^"'>\s]+) captures inside one unit of text:
\* the value of a charset attribute, or the token after charset= in another
\* attribute's value; <<>> when the unit has no match
CharsetIn(u) ==
    IF ~IsElem(u) THEN <<>>
    ELSE IF "charset" \in DOMAIN u.attrs /\ u.attrs["charset"] # <<>>
         THEN Prefix(u.attrs["charset"], 1)
    ELSE IF \E n \in DOMAIN u.attrs : \E i \in 1..(Len(u.attrs[n]) - 1) :
                LowerValTok(u.attrs[n][i]) = "charset="
         THEN LET n == CHOOSE n \in DOMAIN u.attrs : \E i \in 1..(Len(u.attrs[n]) - 1) :
                            LowerValTok(u.attrs[n][i]) = "charset="
                  i == FirstIdx(LowerVal(SubSeq(u.attrs[n], 1, Len(u.attrs[n]) - 1)),
                                {"charset="})
              IN  <<u.attrs[n][i + 1]>>
    ELSE <<>>

\* re.search over the text: the capture of the first unit that has one
charset_match(text) ==
    IF \E i \in 1..Len(text) : CharsetIn(text[i]) # <<>>
    THEN CharsetIn(text[CHOOSE i \in 1..Len(text) :
                            /\ CharsetIn(text[i]) # <<>>
                            /\ \A j \in 1..(i - 1) : CharsetIn(text[j]) = <<>>])
    ELSE <<>>

ConfidenceThreshold == 70

\* step 2 searching the whole payload
meta_encoding_unbounded(response_content) ==
    LowerVal(charset_match(DecodeUtf8(response_content, "ignore")))

\* step 2 (lines 150-164): the charset of the first 2048 bytes
meta_encoding(response_content) ==
    LowerVal(charset_match(DecodeUtf8(Slice(response_content, HeadWindow), "ignore")))

\* step 2 run whatever the header gave
Stage2_unconditional(e1, meta) == IF meta = <<"utf-8">> THEN <<"utf-8">> ELSE e1

Stage2(e1, meta) == IF Untrusted(e1) /\ meta = <<"utf-8">> THEN <<"utf-8">> ELSE e1

\* step 3 accepting a guess whose confidence equals the threshold
Stage3_at_threshold(e2, detected) ==
    IF detected.installed /\ Untrusted(e2) /\ ~detected.raises
       /\ detected.confidence >= ConfidenceThreshold
    THEN detected.encoding ELSE e2

\* step 3 (lines 166-174)
Stage3(e2, detected) ==
    IF detected.installed /\ Untrusted(e2) /\ ~detected.raises
       /\ detected.confidence > ConfidenceThreshold
    THEN detected.encoding ELSE e2

\* step 4 (lines 176-178)
Stage4(e3) == IF e3 = <<>> THEN <<"utf-8">> ELSE e3

Cascade(e1, e2, detected) ==
    [encoding |-> Stage4(Stage3(e2, detected)),
     header |-> e1,
     stage2 |-> e2,
     meta_consulted |-> Untrusted(e1),
     chardet_consulted |-> detected.installed /\ Untrusted(e2)]

\* the cascade; detected is has_chardet and the outcome of chardet.detect
resolve_encoding(content_type, response_content, detected) ==
    Cascade(header_charset(content_type),
            Stage2(header_charset(content_type), meta_encoding(response_content)),
            detected)

(***************************************************************************)
(* What the network can answer.                                            *)
(***************************************************************************)
Href(tag, attr, ref) == Elem(tag, attr :> ref)

MetaCharset(v) == Elem("meta", "charset" :> v)

\* a page in UTF-8 with a head, a charset declaration, a relative link and
\* the two bytes of an e-acute
PageUtf8 == <<M(HeadOpen), M(MetaCharset(<<"utf-8">>)), M(HeadClose),
              M(Href("a", "href", <<"/", "x">>)), B(195), B(169)>>

\* a page in Latin-1 with no head: a relative link and the byte of an e-acute
PageLatin1 == <<M(Href("img", "src", <<"x">>)), B(233)>>

\* a page whose link makes urljoin raise ValueError (an unclosed bracket in
\* the authority)
PageBadLink == <<M(Href("a", "href", <<"/", "/", "[", ":", ":", "1">>)), B(120)>>

Bodies == {PageUtf8, PageLatin1, PageBadLink, GzipCompress(PageUtf8),
           Prefix(GzipCompress(PageUtf8), 6), ZlibCompress(PageUtf8),
           Deflate(PageUtf8), BrotliCompress(PageUtf8)}

ContentTypes == {None,
                 Some(<<"text/html">>),
                 Some(<<"text/html", ";", " ", "charset=", "UTF-8">>),
                 Some(<<"text/html", ";", " ", "charset=", "ISO-8859-1">>),
                 Some(<<"text/html", ";", " ", "charset=", "bogus">>),
                 Some(<<"application/json">>),
                 Some(<<"TEXT/HTML">>)}

ContentEncodings == {None, Some(<<"gzip">>), Some(<<"deflate">>), Some(<<"compress">>),
                     Some(<<"br">>)}

ExtraHeaders == {("X-Frame-Options" :> <<"DENY">>) @@ ("Set-Cookie" :> <<"sid=1">>)}

StatusCodes == {200, 404, 500}

ResponseHeaders(ct, ce, extra) ==
    (IF ct # None THEN "Content-Type" :> ct[1] ELSE <<>>)
    @@ (IF ce # None THEN "Content-Encoding" :> ce[1] ELSE <<>>)
    @@ extra

Response(status, headers, content) ==
    [kind |-> "response", exc |-> "", status |-> status, headers |-> headers,
     content |-> content]

NetworkError(type) ==
    [kind |-> "error", exc |-> type, status |-> 0, headers |-> <<>>, content |-> <<>>]

Upstreams ==
    {NetworkError(t) : t \in {"ConnectTimeout", "ReadTimeout", "ConnectError"}}
    \cup {Response(st, <<>>, <<>>) : st \in StatusCodes \ {200}}
    \cup {Response(200, ResponseHeaders(ct, ce, extra), body) :
            ct \in ContentTypes, ce \in ContentEncodings,
            extra \in ExtraHeaders, body \in Bodies}

\* chardet in this process: installed = FALSE stands for the ImportError of
\* import chardet; otherwise what chardet.detect does, [raises, encoding,
\* confidence in percent]
Detection(installed, raises, encoding, confidence) ==
    [installed |-> installed, raises |-> raises, encoding |-> encoding,
     confidence |-> confidence]

Detections == {Detection(FALSE, FALSE, <<>>, 0),
               Detection(TRUE, TRUE, <<>>, 0),
               Detection(TRUE, FALSE, <<>>, 0),
               Detection(TRUE, FALSE, <<"Windows-1252">>, 40),
               Detection(TRUE, FALSE, <<"Windows-1252">>, 70),
               Detection(TRUE, FALSE, <<"Windows-1252">>, 90)}

NoDetection == Detection(TRUE, FALSE, <<>>, 0)

(***************************************************************************)
(* The service instance and one call of GET /api/browser/proxy.            *)
(***************************************************************************)
timeout == 30

ProxyConfigs == {None, Some("http://proxy")}

\* BrowserProxyService.__init__
BrowserProxyService(proxy_config) ==
    [timeout |-> timeout,
     headers |-> ("User-Agent" :> <<"Mozilla/5.0">>)
                 @@ ("Accept-Encoding" :> <<"gzip, deflate, br">>),
     proxy_config |-> proxy_config]

NoLocals ==
    [content_type |-> <<>>, tried |-> "none", has_brotli |-> TRUE,
     response_content |-> <<>>, detected |-> NoDetection, encoding |-> <<>>,
     html_content |-> <<>>, parser_ok |-> TRUE, rewritten_html |-> <<>>]

Stages == <<"validating", "ssrf-checking", "fetching", "type-checking", "decompressing",
            "encoding-resolving", "decoding", "rewriting", "sanitizing">>

\* no method is called directly
NoProbe == [fn |-> "", args |-> <<>>, out |-> None]

Init ==
    /\ pc = "idle"
    /\ url = <<>>
    /\ upstream = NetworkError("")
    /\ service \in {BrowserProxyService(c) : c \in ProxyConfigs}
    /\ locals = NoLocals
    /\ trace = <<>>
    /\ net = <<>>
    /\ result = None
    /\ raised = None
    /\ http = None
    /\ probe = NoProbe

\* is_html ignoring the case of the header value
is_html_any_case(content_type) == "text/html" \in Range(LowerVal(content_type))

\* "text/html" in content_type
is_html(content_type) == "text/html" \in Range(content_type)

\* a return that sends a failed call back to the fetching stage
Return_retrying(triple) ==
    /\ result' = Some(triple)
    /\ raised' = None
    /\ pc' = IF triple.error # None THEN "fetching" ELSE "returned"

\* return of a triple from fetch_page
Return(triple) ==
    /\ result' = Some(triple)
    /\ raised' = None
    /\ pc' = "returned"

\* an exception raised inside the try block of fetch_page
Raise(e) ==
    IF except_clauses(e) # None
    THEN Return(except_clauses(e)[1])
    ELSE /\ result' = None
         /\ raised' = Some(e)
         /\ pc' = "raised"

Enter(stage) == pc = stage /\ trace' = Append(trace, stage)

\* proxy_page is called with the url query parameter
ProxyPage(u) ==
    /\ pc = "idle"
    /\ url' = u
    /\ pc' = "validating"
    /\ UNCHANGED <<upstream, service, locals, trace, net, result, raised, http, probe>>

\* lines 46-48
Validating ==
    /\ Enter("validating")
    /\ IF ~_is_valid_url(url)
       THEN Return(Triple(None, Some(<<"Invalid URL provided">>), None))
       ELSE pc' = "ssrf-checking" /\ UNCHANGED <<result, raised>>
    /\ UNCHANGED <<url, upstream, service, locals, net, http, probe>>

\* lines 50-52
SsrfChecking ==
    /\ Enter("ssrf-checking")
    /\ IF _is_internal_url(url)
       THEN Return(Triple(None, Some(<<"Access to internal URLs is not allowed">>), None))
       ELSE pc' = "fetching" /\ UNCHANGED <<result, raised>>
    /\ UNCHANGED <<url, upstream, service, locals, net, http, probe>>

\* lines 54-65: the client is created, the GET is awaited, raise_for_status
Fetching(answer) ==
    /\ Enter("fetching")
    /\ upstream' = answer
    /\ net' = net \o <<[op |-> "client", timeout |-> service.timeout,
                        follow_redirects |-> TRUE, proxies |-> service.proxy_config],
                       [op |-> "get", timeout |-> service.timeout,
                        follow_redirects |-> TRUE, proxies |-> service.proxy_config]>>
    /\ IF answer.kind = "error"
       THEN Raise(Exc(answer.exc, 0, <<answer.exc>>))
       ELSE IF answer.status # 200
       THEN Raise(Exc("HTTPStatusError", answer.status, <<"status ", ToString(answer.status)>>))
       ELSE pc' = "type-checking" /\ UNCHANGED <<result, raised>>
    /\ UNCHANGED <<url, service, locals, http, probe>>

\* lines 67-70
TypeChecking ==
    /\ Enter("type-checking")
    /\ LET content_type == HeadersGet(upstream.headers, "Content-Type")
       IN  IF ~is_html(content_type)
           THEN /\ Return(Triple(None, Some(<<"Non-HTML content type: ">> \o content_type), None))
                /\ UNCHANGED locals
           ELSE /\ locals' = [locals EXCEPT !.content_type = content_type]
                /\ pc' = "decompressing"
                /\ UNCHANGED <<result, raised>>
    /\ UNCHANGED <<url, upstream, service, net, http, probe>>

\* lines 94-139: has_brotli = FALSE stands for the ImportError of import brotli
Decompressing(has_brotli) ==
    /\ Enter("decompressing")
    /\ LET content_encoding == LowerVal(HeadersGet(upstream.headers, "content-encoding"))
           d == decompress(upstream.content, content_encoding, has_brotli)
       IN  /\ d.tried = "br" \/ has_brotli
           /\ locals' = [locals EXCEPT !.tried = d.tried,
                                       !.has_brotli = has_brotli,
                                       !.response_content = d.content]
    /\ pc' = "encoding-resolving"
    /\ UNCHANGED <<url, upstream, service, net, result, raised, http, probe>>

\* lines 86-92 and 141-182
EncodingResolving(detected) ==
    /\ Enter("encoding-resolving")
    /\ LET r == resolve_encoding(locals.content_type, locals.response_content, detected)
       IN  /\ Untrusted(r.stage2) \/ detected = NoDetection
           /\ locals' = [locals EXCEPT !.encoding = r.encoding, !.detected = detected]
    /\ pc' = "decoding"
    /\ UNCHANGED <<url, upstream, service, net, result, raised, http, probe>>

\* lines 184-193
Decoding ==
    /\ Enter("decoding")
    /\ locals' = [locals EXCEPT
                    !.html_content = decode_content(locals.response_content, locals.encoding)]
    /\ pc' = "rewriting"
    /\ UNCHANGED <<url, upstream, service, net, result, raised, http, probe>>

\* lines 195-196
Rewriting(parser_ok) ==
    /\ Enter("rewriting")
    /\ locals' = [locals EXCEPT
                    !.parser_ok = parser_ok,
                    !.rewritten_html = _rewrite_urls(locals.html_content, url, parser_ok)]
    /\ pc' = "sanitizing"
    /\ UNCHANGED <<url, upstream, service, net, result, raised, http, probe>>

\* lines 198-201
Sanitizing ==
    /\ Enter("sanitizing")
    /\ Return(Triple(Some(locals.rewritten_html), None,
                     Some(_get_safe_headers(HeadersItems(upstream.headers)))))
    /\ UNCHANGED <<url, upstream, service, locals, net, http, probe>>

HttpAnswer(status, headers, media_type, content, detail) ==
    [status |-> status, headers |-> headers, media_type |-> media_type,
     content |-> content, detail |-> detail]

\* proxy_page_answer forwarding the headers fetch_page returned
proxy_page_answer_forwarding(res, exc) ==
    IF exc # None
    THEN HttpAnswer(500, <<>>, <<"application/json">>, <<>>,
                    <<"Server error: ">> \o exc[1].detail)
    ELSE IF res[1].error # None /\ res[1].error[1] # <<>>
    THEN HttpAnswer(400, <<>>, <<"application/json">>, <<>>, res[1].error[1])
    ELSE HttpAnswer(200, ("Cache-Control" :> <<"public, max-age=3600">>) @@ res[1].headers[1],
                    <<"text/html; charset=utf-8">>, res[1].document[1], <<>>)

\* what proxy_page sends for fetch_page's outcome (lines 39-65)
proxy_page_answer(res, exc) ==
    IF exc # None
    THEN HttpAnswer(500, <<>>, <<"application/json">>, <<>>,
                    <<"Server error: ">> \o exc[1].detail)
    ELSE IF res[1].error # None /\ res[1].error[1] # <<>>
    THEN HttpAnswer(400, <<>>, <<"application/json">>, <<>>, res[1].error[1])
    ELSE IF res[1].document = None
    THEN HttpAnswer(500, <<>>, <<"application/json">>, <<>>,
                    <<"Server error: ", "object of type 'NoneType' has no len()">>)
    ELSE HttpAnswer(200, "Cache-Control" :> <<"public, max-age=3600">>,
                    <<"text/html; charset=utf-8">>, res[1].document[1], <<>>)

\* proxy_page after fetch_page has returned or raised
Respond ==
    /\ pc \in {"returned", "raised"}
    /\ http' = Some(proxy_page_answer(result, raised))
    /\ pc' = "responded"
    /\ UNCHANGED <<url, upstream, service, locals, trace, net, result, raised, probe>>

Next ==
    \/ \E u \in Urls : ProxyPage(u)
    \/ Validating
    \/ SsrfChecking
    \/ \E answer \in Upstreams : Fetching(answer)
    \/ TypeChecking
    \/ \E has_brotli \in BOOLEAN : Decompressing(has_brotli)
    \/ \E detected \in Detections : EncodingResolving(detected)
    \/ Decoding
    \/ \E parser_ok \in BOOLEAN : Rewriting(parser_ok)
    \/ Sanitizing
    \/ Respond

Spec == Init /\ [][Next]_vars

(***************************************************************************)
(* Direct calls of one method of the service.  probe holds the method, its *)
(* arguments and, once the call has returned, its value; the variables of  *)
(* the endpoint stay as constructed.                                       *)
(***************************************************************************)
Call(fn, args) == [fn |-> fn, args |-> args, out |-> None]

InitProbe(calls) ==
    /\ pc = "idle"
    /\ url = <<>>
    /\ upstream = NetworkError("")
    /\ service \in {BrowserProxyService(c) : c \in ProxyConfigs}
    /\ locals = NoLocals
    /\ trace = <<>>
    /\ net = <<>>
    /\ result = None
    /\ raised = None
    /\ http = None
    /\ probe \in calls

Returns(fn, value) ==
    /\ probe.fn = fn
    /\ probe.out = None
    /\ probe' = [probe EXCEPT !.out = Some(value)]
    /\ UNCHANGED <<pc, url, upstream, service, locals, trace, net, result, raised, http>>

\* header names in several letter cases, listed and not listed
MaxHeaders == 2

SanitizeNames ==
    {"X-Frame-Options", "X-FRAME-OPTIONS", "x-frame-options",
     "Content-Security-Policy", "X-Content-Security-Policy", "X-WebKit-CSP",
     "Content-Encoding", "CONTENT-ENCODING", "Transfer-Encoding", "Content-Length",
     "Content-Type", "Set-Cookie", "set-cookie", "X-Custom"}

SanitizeValues == {<<"DENY">>, <<"sid=1">>}

HeaderDicts ==
    UNION {[S -> SanitizeValues] :
              S \in {T \in SUBSET SanitizeNames : Cardinality(T) <= MaxHeaders}}

CallGetSafeHeaders ==
    Returns("_get_safe_headers", _get_safe_headers(probe.args[1]))

InitSanitize == InitProbe({Call("_get_safe_headers", <<h>>) : h \in HeaderDicts})

NextSanitize == CallGetSafeHeaders

SpecSanitize == InitSanitize /\ [][NextSanitize]_vars

\* documents: a head section followed by up to MaxBody units
MaxBody == 2

HttpEquiv ==
    Elem("meta", ("http-equiv" :> <<"Content-Type">>)
                 @@ ("content" :> <<"text/html", ";", " ", "charset=", "utf-8">>))

HeadSections ==
    {<<>>,
     <<HeadOpen, HeadClose>>,
     <<HeadOpen, MetaCharset(<<"utf-8">>), HeadClose>>,
     <<HeadOpen, HttpEquiv, HeadClose>>,
     <<HeadOpen, Href("link", "href", <<"x">>), HeadClose>>,
     <<Href("link", "href", <<"/", "x">>)>>}

BodyUnits ==
    {Href("a", "href", <<"/", "x">>),
     Href("a", "href", <<"..", "/", "x">>),
     Href("a", "href", <<>>),
     Href("a", "href", <<"https", ":", "/", "/", "example", ".", "com", "/">>),
     Href("a", "href", <<"/", "/", "[", ":", ":", "1">>),
     Href("a", "name", <<"x">>),
     Href("img", "src", <<"x">>),
     Href("img", "href", <<"x">>),
     Href("link", "href", <<"?", "x">>),
     Href("script", "src", <<"/", "/", "example", ".", "com", "/", "x">>),
     Href("form", "action", <<"x">>),
     Elem("form", <<>>),
     Char(233)}

Documents ==
    {h \o b : h \in HeadSections,
              b \in UNION {[1..n -> BodyUnits] : n \in 0..MaxBody}}

BaseUrls == {<<"http", ":", "/", "/", "example", ".", "com", "/", "a", "/", "b">>,
             <<"HTTP", ":", "/", "/", "example", ".", "com", "/", "a", "/", "b">>,
             <<"https", ":", "/", "/", "example", ".", "com">>}

CallRewriteUrls ==
    Returns("_rewrite_urls", _rewrite_urls(probe.args[1], probe.args[2], probe.args[3]))

InitRewrite ==
    InitProbe({Call("_rewrite_urls", <<html, base_url, parser_ok>>) :
                  html \in Documents, base_url \in BaseUrls, parser_ok \in BOOLEAN})

\* _rewrite_urls called on its own output with the same base_url
CallRewriteUrlsAgain ==
    /\ probe.fn = "_rewrite_urls"
    /\ Len(probe.out) = 1
    /\ probe' = [probe EXCEPT !.out = Append(@, _rewrite_urls(probe.out[1], probe.args[2],
                                                              probe.args[3]))]
    /\ UNCHANGED <<pc, url, upstream, service, locals, trace, net, result, raised, http>>

NextRewrite == CallRewriteUrls \/ CallRewriteUrlsAgain

SpecRewrite == InitRewrite /\ [][NextRewrite]_vars

\* str.encode('utf-8'): one byte below U+0080, two bytes below U+0800; markup
\* is ASCII text
EncodeChar(u) ==
    IF "cp" \notin DOMAIN u THEN <<M(u)>>
    ELSE IF u.cp < 128 THEN <<B(u.cp)>>
    ELSE <<B(192 + (u.cp \div 64)), B(128 + (u.cp % 64))>>

RECURSIVE EncodeUtf8(_)
EncodeUtf8(text) ==
    IF Len(text) = 0 THEN <<>> ELSE EncodeChar(text[1]) \o EncodeUtf8(Tail(text))

\* lines 141-193 of fetch_page on the bytes the decompression stage hands on
resolve_and_decode(response_content, content_type, detected) ==
    [encoding |-> resolve_encoding(content_type, response_content, detected).encoding,
     text |-> decode_content(response_content,
                  resolve_encoding(content_type, response_content, detected).encoding)]

\* lines 94-193 of fetch_page: decompression, encoding resolution, decoding
decode_stages(raw_content, content_type, content_encoding, detected, has_brotli) ==
    resolve_and_decode(decompress(raw_content, content_encoding, has_brotli).content,
                       content_type, detected)

\* the strings that are compressed: an ASCII letter, an e-acute, charset
\* declarations, a comment as long as the window of the meta stage
MaxText == 2

TextUnits == {Char(120), Char(233), MetaCharset(<<"utf-8">>), MetaCharset(<<"UTF-8">>),
              MetaCharset(<<"windows-1252">>), Elem("#comment", <<>>)}

Texts == UNION {[1..n -> TextUnits] : n \in 0..MaxText}

\* response.headers.get('content-type', '') of an HTML response
HtmlContentTypes == {<<>>,
                     <<"text/html">>,
                     <<"text/html", ";", " ", "charset=", "UTF-8">>,
                     <<"text/html", ";", " ", "charset=", "ISO-8859-1">>,
                     <<"text/html", ";", " ", "charset=", "bogus">>}

\* response.headers.get('content-encoding', '').lower()
LowerContentEncodings == {<<>>, <<"gzip">>, <<"deflate">>, <<"br">>}

CallDecodeStages ==
    Returns("decode_stages",
            decode_stages(GzipCompress(EncodeUtf8(probe.args[1])), probe.args[2],
                          probe.args[3], probe.args[4], probe.args[5]))

InitRoundTrip ==
    InitProbe({Call("decode_stages", <<s, ct, ce, detected, has_brotli>>) :
                  s \in Texts, ct \in HtmlContentTypes, ce \in LowerContentEncodings,
                  detected \in Detections, has_brotli \in BOOLEAN})

NextRoundTrip == CallDecodeStages

SpecRoundTrip == InitRoundTrip /\ [][NextRoundTrip]_vars

(***************************************************************************)
(* Concurrent calls of fetch_page on the one service instance.  The event  *)
(* loop switches between calls only at an await: entering the client       *)
(* (line 63), the GET (line 64) and leaving the client on the way out.     *)
(* pc, url, upstream, locals and result hold one value per call; probe     *)
(* holds what is installed in the process.                                 *)
(***************************************************************************)
MaxCalls == 2

Calls == 1..MaxCalls

\* lines 94-196: the document returned for an HTML response
page_document(u, answer, has_brotli, detected, parser_ok) ==
    _rewrite_urls(decode_stages(answer.content,
                                HeadersGet(answer.headers, "Content-Type"),
                                LowerVal(HeadersGet(answer.headers, "content-encoding")),
                                detected, has_brotli).text,
                  u, parser_ok)

\* lines 65-211: what fetch_page returns once its GET has been answered
response_outcome(u, answer, has_brotli, detected, parser_ok) ==
    IF answer.kind = "error"
    THEN except_clauses(Exc(answer.exc, 0, <<answer.exc>>))[1]
    ELSE IF answer.status # 200
    THEN except_clauses(Exc("HTTPStatusError", answer.status,
                            <<"status ", ToString(answer.status)>>))[1]
    ELSE IF ~is_html(HeadersGet(answer.headers, "Content-Type"))
    THEN Triple(None, Some(<<"Non-HTML content type: ">>
                           \o HeadersGet(answer.headers, "Content-Type")), None)
    ELSE Triple(Some(page_document(u, answer, has_brotli, detected, parser_ok)), None,
                Some(_get_safe_headers(HeadersItems(answer.headers))))

\* lines 55-61: the arguments of httpx.AsyncClient, read from the instance
client_kwargs(self) ==
    [timeout |-> self.timeout, follow_redirects |-> TRUE, proxies |-> self.proxy_config]

\* an event on the network: a client created or a GET sent by a call
NetEvent(op, call, client, kwargs, headers) ==
    [op |-> op, call |-> call, client |-> client, timeout |-> kwargs.timeout,
     follow_redirects |-> kwargs.follow_redirects, proxies |-> kwargs.proxies,
     headers |-> headers]

\* the locals of a call live on the instance, in one slot for all calls
frame_on_instance(c) == 1

\* the locals of call c (response, buffers, the value to return) live in the
\* frame of its own coroutine
frame(c) == c

NoFrame == [response |-> NetworkError(""), ret |-> NoResult]

ConcurrentUrls == {<<"http", ":", "/", "/", "example", ".", "com", "/", "a", "/", "b">>,
                   <<"http", ":", "/", "/", "localhost">>}

ConcurrentAnswers ==
    {NetworkError("ConnectTimeout"),
     Response(200, ResponseHeaders(Some(<<"text/html">>), None, <<>>), PageUtf8),
     Response(200, ResponseHeaders(Some(<<"text/html">>), None, <<>>), PageLatin1)}

InitConcurrent ==
    /\ pc = [c \in Calls |-> "idle"]
    /\ url = [c \in Calls |-> <<>>]
    /\ upstream = [c \in Calls |-> NetworkError("")]
    /\ service \in {BrowserProxyService(c) : c \in ProxyConfigs}
    /\ locals = [c \in Calls |-> NoFrame]
    /\ trace = <<>>
    /\ net = <<>>
    /\ result = [c \in Calls |-> None]
    /\ raised = None
    /\ http = None
    /\ probe = Call("fetch_page",
                    <<TRUE, Detection(TRUE, FALSE, <<"Windows-1252">>, 90), TRUE>>)

\* lines 45-63: validation, SSRF check, the client is created from the
\* instance's fields; the call then waits to enter the client
BeginCall(c, u) ==
    /\ pc[c] = "idle"
    /\ url' = [url EXCEPT ![c] = u]
    /\ IF ~_is_valid_url(u)
       THEN /\ result' = [result EXCEPT ![c] =
                             Some(Triple(None, Some(<<"Invalid URL provided">>), None))]
            /\ pc' = [pc EXCEPT ![c] = "returned"]
            /\ net' = net
       ELSE IF _is_internal_url(u)
       THEN /\ result' = [result EXCEPT ![c] =
                             Some(Triple(None,
                                         Some(<<"Access to internal URLs is not allowed">>),
                                         None))]
            /\ pc' = [pc EXCEPT ![c] = "returned"]
            /\ net' = net
       ELSE /\ net' = Append(net, NetEvent("client", c, Len(net) + 1,
                                           client_kwargs(service), <<>>))
            /\ pc' = [pc EXCEPT ![c] = "opening"]
            /\ result' = result
    /\ UNCHANGED <<upstream, service, locals, trace, raised, http, probe>>

\* line 64: the GET is sent on the call's client; the call waits for the answer
SendGet(c) ==
    /\ pc[c] = "opening"
    /\ net' = Append(net, NetEvent("get", c,
                                   CHOOSE i \in 1..Len(net) :
                                       net[i].op = "client" /\ net[i].call = c,
                                   client_kwargs(service), service.headers))
    /\ pc' = [pc EXCEPT ![c] = "awaiting"]
    /\ UNCHANGED <<url, upstream, service, locals, trace, result, raised, http, probe>>

\* lines 64-201: the answer arrives and is processed up to the return
\* statement; the call then waits to leave the client
ReceiveResponse(c, answer) ==
    /\ pc[c] = "awaiting"
    /\ upstream' = [upstream EXCEPT ![c] = answer]
    /\ locals' = [locals EXCEPT ![frame(c)] =
                     [response |-> answer,
                      ret |-> response_outcome(url[c], answer, probe.args[1],
                                               probe.args[2], probe.args[3])]]
    /\ pc' = [pc EXCEPT ![c] = "closing"]
    /\ UNCHANGED <<url, service, trace, net, result, raised, http, probe>>

\* the client is closed and fetch_page hands its value to the caller
CloseClient(c) ==
    /\ pc[c] = "closing"
    /\ result' = [result EXCEPT ![c] = Some(locals[frame(c)].ret)]
    /\ pc' = [pc EXCEPT ![c] = "returned"]
    /\ UNCHANGED <<url, upstream, service, locals, trace, net, raised, http, probe>>

NextConcurrent ==
    \/ \E c \in Calls, u \in ConcurrentUrls : BeginCall(c, u)
    \/ \E c \in Calls : SendGet(c)
    \/ \E c \in Calls, answer \in ConcurrentAnswers : ReceiveResponse(c, answer)
    \/ \E c \in Calls : CloseClient(c)

SpecConcurrent == InitConcurrent /\ [][NextConcurrent]_vars

(***************************************************************************)
(* Properties of fetch_page and of the endpoint, checked under Spec.       *)
(***************************************************************************)
Returned == pc \in {"returned", "responded"} /\ result # None

LaterStages == {"decompressing", "encoding-resolving", "decoding", "rewriting", "sanitizing"}

\* C1: the triple fetch_page returns has exactly one of document and error
\* set, and headers is set if and only if document is set.
C1_ExactlyOneOfDocumentAndError ==
    result # None =>
        /\ (result[1].document = None) # (result[1].error = None)
        /\ (result[1].headers # None) <=> (result[1].document # None)

\* a call that returned a document with its headers
C1_Witness ==
    /\ pc = "returned"
    /\ result[1].document # None
    /\ result[1].headers # None
    /\ result[1].error = None

\* the hostname of u is one of the listed names or starts with a listed prefix
ListedInternalHost(u) ==
    /\ urlparse(u).ok
    /\ \/ hostname(urlparse(u)) \in {<<"localhost">>,
                                     <<"127", ".", "0", ".", "0", ".", "1">>,
                                     <<"0", ".", "0", ".", "0", ".", "0">>,
                                     <<":", ":", "1">>}
       \/ StartsWith(hostname(urlparse(u)), <<"10", ".">>)
       \/ StartsWith(hostname(urlparse(u)), <<"192", ".", "168", ".">>)
       \/ StartsWith(hostname(urlparse(u)), <<"172", ".">>)

InternalError == Some(<<"Access to internal URLs is not allowed">>)
InvalidError == Some(<<"Invalid URL provided">>)

\* C2 as claimed: for every URL whose hostname is listed, fetch_page returns
\* the internal-URL error and no outbound request has been made.
C2_Original ==
    (Returned /\ ListedInternalHost(url)) =>
        /\ result[1].error = InternalError
        /\ net = <<>>

\* C2 amended: for every URL whose hostname is listed, fetch_page makes no
\* outbound request (neither at its return nor later) and returns an error: the
\* internal-URL error when the URL passes validation (scheme http or https),
\* and the invalid-URL error when it does not.
C2_InternalHostNeverFetched ==
    ListedInternalHost(url) =>
        /\ net = <<>>
        /\ "fetching" \notin Range(trace)
        /\ Returned =>
              /\ result[1].document = None
              /\ result[1].error = IF urlparse(url).scheme \in {<<"http">>, <<"https">>}
                                   THEN InternalError ELSE InvalidError

\* a valid URL with userinfo before a listed host was rejected by the guard
C2_Witness ==
    /\ pc = "returned"
    /\ ListedInternalHost(url)
    /\ "@" \in Range(url)
    /\ result[1].error = InternalError
    /\ net = <<>>

\* the validator of the call has run
Validated == "validating" \in Range(trace) /\ pc # "validating"

\* the validator of the call has run and accepted the URL
Accepted ==
    /\ Validated
    /\ ~(result # None /\ result[1].error = InvalidError)

\* C3: _is_valid_url accepts a URL if and only if it parses, has a non-empty
\* host and a scheme in {http, https}.
C3_ValidIffHostAndHttpScheme ==
    Validated =>
        (Accepted <=> /\ urlparse(url).ok
                      /\ hostname(urlparse(url)) # <<>>
                      /\ urlparse(url).scheme \in {<<"http">>, <<"https">>})

\* the call got a 2xx response whose Content-Type does not contain text/html
NonHtmlResponse ==
    /\ "fetching" \in Range(trace)
    /\ upstream.kind = "response"
    /\ upstream.status = 200
    /\ "text/html" \notin Range(HeadersGet(upstream.headers, "Content-Type"))

\* C4: a 2xx response whose Content-Type lacks text/html is answered with
\* "Non-HTML content type: <content-type>", and no stage after the type check
\* runs in that call.
C4_NonHtmlRejectedBeforeDecoding ==
    NonHtmlResponse =>
        /\ Range(trace) \cap LaterStages = {}
        /\ locals = NoLocals
        /\ pc \in {"type-checking", "returned", "responded"}
        /\ Returned =>
              result[1] = Triple(None,
                                 Some(<<"Non-HTML content type: ">>
                                      \o HeadersGet(upstream.headers, "Content-Type")),
                                 None)

\* a response with an upper-case TEXT/HTML type was rejected
C4_Witness ==
    /\ pc = "returned"
    /\ NonHtmlResponse
    /\ result[1].error = Some(<<"Non-HTML content type: ", "TEXT/HTML">>)

\* the call's fetch failed
FetchFailed ==
    /\ Returned
    /\ "fetching" \in Range(trace)
    /\ upstream.kind = "error" \/ upstream.status # 200

\* C5: a timeout yields "Request timed out", a non-2xx status "HTTP error:
\* <status>", any other transport error "Error fetching page: <detail>", and
\* the first two are never reported under the third message.
C5_DistinctFailureMessages ==
    FetchFailed =>
        /\ result[1].error # None
        /\ (upstream.kind = "error" /\ upstream.exc \in {"ConnectTimeout", "ReadTimeout"})
              <=> result[1].error = Some(<<"Request timed out">>)
        /\ upstream.kind = "response"
              <=> result[1].error = Some(<<"HTTP error: ", ToString(upstream.status)>>)
        /\ (upstream.kind = "error" /\ upstream.exc \notin {"ConnectTimeout", "ReadTimeout"})
              <=> result[1].error[1][1] = "Error fetching page: "

\* a read timeout was reported as a timeout
C5_Witness ==
    /\ FetchFailed
    /\ upstream.exc = "ReadTimeout"
    /\ result[1].error = Some(<<"Request timed out">>)

\* C6: no exception leaves fetch_page: a call that has ended has returned a
\* triple carrying an error or a document.
C6_NoExceptionPropagates ==
    /\ raised = None
    /\ pc # "raised"
    /\ pc \in {"returned", "responded"} =>
          /\ result # None
          /\ result[1].error # None \/ result[1].document # None
    /\ http # None => http[1].status # 500

\* a transport error was turned into an error triple
C6_Witness ==
    /\ pc = "returned"
    /\ upstream.kind = "error"
    /\ upstream.exc = "ConnectError"
    /\ result[1].error = Some(<<"Error fetching page: ", "ConnectError">>)

ListedHeaders == {"x-frame-options", "content-security-policy",
                  "x-content-security-policy", "x-webkit-csp",
                  "content-encoding", "transfer-encoding", "content-length"}

\* C8: _get_safe_headers returns the input headers minus every entry whose
\* name, in lower case, is one of the seven listed names: no listed header
\* survives in any letter case, every other header keeps its name and value,
\* and no header is added.
C8_SafeHeadersAreTheUnlistedOnes ==
    (probe.fn = "_get_safe_headers" /\ probe.out # None) =>
        /\ DOMAIN probe.out[1]
              = {k \in DOMAIN probe.args[1] : LowerName(k) \notin ListedHeaders}
        /\ \A k \in DOMAIN probe.out[1] : probe.out[1][k] = probe.args[1][k]

\* a listed header in upper case was removed and an unlisted one kept
C8_Witness ==
    /\ probe.fn = "_get_safe_headers"
    /\ probe.out # None
    /\ DOMAIN probe.args[1] = {"X-FRAME-OPTIONS", "Set-Cookie"}
    /\ DOMAIN probe.out[1] = {"Set-Cookie"}

(***************************************************************************)
(* Properties of _rewrite_urls, checked under SpecRewrite.                 *)
(***************************************************************************)
ListedAttributes == {<<"a", "href">>, <<"img", "src">>, <<"link", "href">>,
                     <<"script", "src">>, <<"form", "action">>}

\* the listed attribute of unit u, if it has one
HasListedAttribute(u) ==
    IsElem(u) /\ \E t \in ListedAttributes : u.tag = t[1] /\ t[2] \in DOMAIN u.attrs

ListedAttribute(u) ==
    (CHOOSE t \in ListedAttributes : u.tag = t[1] /\ t[2] \in DOMAIN u.attrs)[2]

\* the elements of a document that carry a listed attribute, in order
ListedElements(html) == SelectSeq(html, HasListedAttribute)

\* the call of _rewrite_urls has returned from its try block
Rewritten ==
    /\ probe.fn = "_rewrite_urls"
    /\ probe.out # None
    /\ rewrite_succeeds(probe.args[1], probe.args[2], probe.args[3])

\* C9: after _rewrite_urls succeeds, the elements with a listed attribute
\* are those of the input, in order, and each listed attribute equals the
\* resolution of its original value against base_url, which has a scheme.
C9_ListedAttributesAreResolved ==
    Rewritten =>
        LET before == ListedElements(probe.args[1])
            after == ListedElements(probe.out[1])
        IN  /\ Len(after) = Len(before)
            /\ \A i \in 1..Len(before) :
                  /\ after[i].tag = before[i].tag
                  /\ after[i].attrs[ListedAttribute(before[i])]
                        = urljoin(probe.args[2],
                                  before[i].attrs[ListedAttribute(before[i])]).val
                  /\ urlparse(after[i].attrs[ListedAttribute(before[i])]).scheme # <<>>

\* a relative form action and an empty href were both resolved
C9_Witness ==
    /\ Rewritten
    /\ ListedElements(probe.args[1])
          = <<Href("form", "action", <<"x">>), Href("a", "href", <<>>)>>
    /\ ListedElements(probe.out[1])
          = <<Href("form", "action",
                   <<"http", ":", "/", "/", "example", ".", "com", "/", "a", "/", "x">>),
              Href("a", "href", probe.args[2])>>

\* the unit declares a charset: <meta charset> or <meta http-equiv=Content-Type>
IsCharsetDeclaration(u) ==
    /\ IsElem(u)
    /\ u.tag = "meta"
    /\ \/ "charset" \in DOMAIN u.attrs
       \/ /\ "http-equiv" \in DOMAIN u.attrs
          /\ u.attrs["http-equiv"] \in {<<"Content-Type">>, <<"content-type">>}

Declarations(html) == SelectSeq(html, IsCharsetDeclaration)

\* C10: after _rewrite_urls on a document with a <head> that has no charset
\* declaration, <meta charset="utf-8"> is the first child of the output's
\* <head>; a document that has a declaration keeps it and gets no second one.
C10_MetaCharsetIsFirstInHead ==
    (Rewritten /\ BeautifulSoup(probe.args[1]).head # None) =>
        IF Declarations(probe.args[1]) = <<>>
        THEN /\ Len(probe.out[1]) >= 2
             /\ probe.out[1][1] = HeadOpen
             /\ probe.out[1][2] = MetaCharset(<<"utf-8">>)
        ELSE Declarations(probe.out[1]) = Declarations(probe.args[1])

\* index of the </head> tag of a serialized document, 0 without a head
HeadEnd(html) == FirstIdx(html, {HeadClose})

\* C11: after _rewrite_urls on a document with a <head>, the output has a
\* <base href=base_url> element inside <head>, immediately after a charset
\* declaration.
C11_BaseFollowsCharsetDeclaration ==
    (Rewritten /\ BeautifulSoup(probe.args[1]).head # None) =>
        \E i \in 2..HeadEnd(probe.out[1]) :
            /\ probe.out[1][i] = Elem("base", "href" :> probe.args[2])
            /\ IsCharsetDeclaration(probe.out[1][i - 1])

\* the rewriting stage has run and its try block raised
RewriteFailed ==
    /\ "rewriting" \in Range(trace)
    /\ ~locals.parser_ok \/ AnyRaises(SoupUnits(BeautifulSoup(locals.html_content)), url)

\* C12: when the rewrite raises (the parser fails or a link cannot be
\* resolved), _rewrite_urls returns the decoded HTML unchanged and fetch_page
\* returns that document, not an error.
C12_RewriteFailureKeepsDocument ==
    RewriteFailed =>
        /\ locals.rewritten_html = locals.html_content
        /\ pc # "raised"
        /\ Returned => /\ result[1].document = Some(locals.html_content)
                       /\ result[1].error = None

C12_Witness ==
    /\ RewriteFailed /\ locals.parser_ok /\ pc = "responded"
    /\ result[1].document = Some(locals.html_content)
    /\ http[1].status = 200

\* the decompressing stage has run and the decompressor it tried raised
DecompressFailed ==
    /\ "decompressing" \in Range(trace)
    /\ \/ locals.tried = "gzip" /\ ~gzip_decompress(upstream.content).ok
       \/ locals.tried = "deflate" /\ ~zlib_decompress_raw(upstream.content).ok
       \/ locals.tried = "br" /\ ~locals.has_brotli
       \/ locals.tried = "br" /\ ~brotli_decompress(upstream.content).ok

\* C13: when the decompressor that was tried fails (a corrupt stream, or the
\* Brotli library is absent), the pipeline goes on with the raw body bytes and
\* the call ends with a document, not with an error.
C13_DecompressFailureKeepsRawBytes ==
    DecompressFailed =>
        /\ locals.response_content = upstream.content
        /\ pc # "raised"
        /\ Returned => result[1].error = None /\ result[1].document # None

C13_Witness ==
    /\ DecompressFailed /\ locals.tried = "gzip" /\ pc = "responded"
    /\ locals.response_content = Prefix(GzipCompress(PageUtf8), 6)
    /\ result[1].error = None
    /\ http[1].status = 200

\* the decoding stage has run
Decoded == "decoding" \in Range(trace)

\* a unit of a str: a character or a piece of markup, not a byte
IsText(u) == "b" \notin DOMAIN u /\ "m" \notin DOMAIN u

\* C14: the decode step always yields a string, one unit per decoded
\* character, and never raises; when the runtime does not know the resolved
\* encoding the bytes are decoded as UTF-8 with replacement characters.
C14_DecodeAlwaysYieldsString ==
    Decoded =>
        /\ \A i \in 1..Len(locals.html_content) : IsText(locals.html_content[i])
        /\ pc # "raised"
        /\ Returned => result[1].error = None
        /\ LowerVal(locals.encoding) \notin KnownCodecs =>
               locals.html_content = DecodeUtf8(locals.response_content, "replace")
        /\ LowerVal(locals.encoding) = <<"utf-8">> =>
               locals.html_content = DecodeUtf8(locals.response_content, "replace")

C14_Witness ==
    /\ Decoded /\ pc = "responded"
    /\ locals.encoding = <<"bogus">>
    /\ locals.response_content = PageLatin1
    /\ locals.html_content = <<Href("img", "src", <<"x">>), Char(Replacement)>>

\* the encoding-resolving stage has run
Resolved == "encoding-resolving" \in Range(trace)

\* no stage of the cascade qualified: the header charset is absent,
\* iso-8859-1 or ascii, the meta stage did not find utf-8, and the detector's
\* confidence is not above 0.7
NothingQualified ==
    /\ header_charset(locals.content_type) \in {<<>>, <<"iso-8859-1">>, <<"ascii">>}
    /\ meta_encoding(locals.response_content) # <<"utf-8">>
    /\ locals.detected.confidence <= 70

\* C15: whenever no cascade stage qualified, the resolved encoding is utf-8.
C15_NothingQualifiedResolvesUtf8 ==
    (Resolved /\ NothingQualified) => locals.encoding = <<"utf-8">>

\* the detector made a guess
Guessed == locals.detected.encoding # <<>>

\* C16: the detector's guess becomes the resolved encoding only if its
\* confidence is strictly above 0.7: a guess at 0.7 or lower is discarded, and
\* with no header charset and no meta charset a guess of windows-1252 at 0.9
\* is the resolved encoding.
C16_GuessNeedsConfidenceAboveThreshold ==
    (Resolved /\ Guessed) =>
        /\ locals.detected.confidence <= 70 =>
              /\ locals.encoding # locals.detected.encoding
              /\ locals.encoding \in {<<"utf-8">>, header_charset(locals.content_type)}
        /\ ( /\ locals.detected.confidence = 90
             /\ header_charset(locals.content_type) = <<>>
             /\ meta_encoding(locals.response_content) = <<>> ) =>
              /\ locals.encoding = locals.detected.encoding
              /\ LowerVal(locals.encoding) = <<"windows-1252">>

C16_Witness ==
    /\ Resolved /\ pc = "responded"
    /\ locals.content_type = <<"text/html">>
    /\ locals.response_content = PageLatin1
    /\ locals.detected = Detection(TRUE, FALSE, <<"Windows-1252">>, 90)
    /\ locals.encoding = <<"Windows-1252">>
    /\ locals.html_content = <<Href("img", "src", <<"x">>), Char(233)>>

\* the decode stages have returned for gzip(encode_utf8(s))
RoundTripDone == probe.fn = "decode_stages" /\ probe.out # None

\* the codecs of the runtime that are not UTF-8
SingleByteCodecs == {<<"iso-8859-1">>, <<"windows-1252">>, <<"ascii">>}

RewrittenTwice == probe.fn = "_rewrite_urls" /\ Len(probe.out) = 2

\* C18: applying _rewrite_urls twice with the same base_url leaves every
\* <a href>, <img src>, <link href>, <script src> and <form action> value
\* equal to its value after the first application.
C18_RewritingTwiceKeepsLinks ==
    RewrittenTwice => ListedElements(probe.out[2]) = ListedElements(probe.out[1])

\* the order of the stages of one call
StageOrder == <<"validating", "ssrf-checking", "fetching", "type-checking",
                "decompressing", "encoding-resolving", "decoding", "rewriting",
                "sanitizing">>

\* the call has reached the error outcome
ErrorOutcome == result # None /\ result[1].error # None

\* the outbound GETs of the call
Gets == SelectSeq(net, LAMBDA r : r.op = "get")

\* the stages entered so far are an initial part of the order, each once; a
\* call that is done went through all of them, a failed call stopped at one
\* of the first four; there is at most one GET, sent by the fetching stage
StagesInOrder ==
    /\ Len(trace) <= Len(StageOrder)
    /\ trace = SubSeq(StageOrder, 1, Len(trace))
    /\ Len(Gets) <= 1
    /\ Len(Gets) = 1 <=> "fetching" \in Range(trace)
    /\ (result # None /\ result[1].error = None) => trace = StageOrder
    /\ ErrorOutcome => Len(trace) <= 4

EventsOf(c, op) == SelectSeq(net, LAMBDA r : r.op = op /\ r.call = c)

\* what a call for u returns when it runs alone and its GET is answered with
\* answer
AloneOutcome(u, answer) ==
    IF ~_is_valid_url(u) THEN Triple(None, Some(<<"Invalid URL provided">>), None)
    ELSE IF _is_internal_url(u)
    THEN Triple(None, Some(<<"Access to internal URLs is not allowed">>), None)
    ELSE response_outcome(u, answer, probe.args[1], probe.args[2], probe.args[3])

\* each call has at most one client, created with the instance's settings,
\* and sends its GET on that client with the instance's headers; a returned
\* call holds what it would return alone, whatever the other calls did in
\* between
CallsAreIndependent ==
    \A c \in Calls :
        /\ Len(EventsOf(c, "client")) <= 1
        /\ Len(EventsOf(c, "get")) <= 1
        /\ \A i \in 1..Len(net) :
              /\ net[i].timeout = timeout
              /\ net[i].proxies = service.proxy_config
              /\ net[i].op = "get" =>
                    /\ net[i].headers = service.headers
                    /\ net[i].client < i
                    /\ net[net[i].client].op = "client"
                    /\ net[net[i].client].call = net[i].call
        /\ pc[c] = "returned" => result[c] = Some(AloneOutcome(url[c], upstream[c]))
        /\ pc[c] # "returned" => result[c] = None

\* C19: concurrent fetch_page calls are independent: no call writes a field
\* of the shared service instance, each call uses its own HTTP client and
\* buffers, and each call returns what it would return alone under every
\* interleaving with the other calls.
C19_ConcurrentCallsAreIndependent ==
    /\ []CallsAreIndependent
    /\ [][service' = service]_vars

\* the two calls overlapped (both clients were created before either GET was
\* sent, and the second call's GET went out first) and returned different
\* documents
C19_Witness ==
    /\ \A c \in {1, 2} : pc[c] = "returned" /\ result[c][1].document # None
    /\ result[1] # result[2]
    /\ Len(net) >= 4
    /\ net[1].op = "client" /\ net[1].call = 1
    /\ net[2].op = "client" /\ net[2].call = 2
    /\ net[3].op = "get" /\ net[3].call = 2
    /\ net[4].op = "get" /\ net[4].call = 1

\* urlparse raises on u, or u has no hostname
NoHostname(u) == ~urlparse(u).ok \/ hostname(urlparse(u)) = <<>>

\* C21: the SSRF guard fails closed: _is_internal_url is true for every URL
\* without a hostname and for every URL on which parsing raises, and such a
\* URL that passed validation gets the internal-URL error and is never
\* fetched.
C21_SsrfGuardFailsClosed ==
    (url # <<>> /\ NoHostname(url)) =>
        /\ _is_internal_url(url)
        /\ net = <<>>
        /\ "fetching" \notin Range(trace)
        /\ (Returned /\ _is_valid_url(url)) =>
              /\ result[1].error = InternalError
              /\ result[1].document = None
              /\ trace = <<"validating", "ssrf-checking">>

\* http://:8080 has an authority but no hostname: it passed validation and
\* the guard rejected it
C21_Witness ==
    /\ pc = "responded"
    /\ urlparse(url).ok /\ urlparse(url).netloc # <<>> /\ hostname(urlparse(url)) = <<>>
    /\ trace = <<"validating", "ssrf-checking">>
    /\ result[1].error = InternalError
    /\ http[1].status = 400
    /\ net = <<>>

\* the charset of the Content-Type header of the call, lower-cased
HeaderCharset == header_charset(probe.args[2])

\* the header charset is present and is neither iso-8859-1 nor ascii
TrustedHeader == HeaderCharset # <<>> /\ HeaderCharset \notin {<<"iso-8859-1">>, <<"ascii">>}

\* C22: a trusted charset from the Content-Type header is the resolved
\* encoding, whatever the meta tags and the detector say; the meta stage
\* and the detector change the encoding only when what came before them was
\* empty or low-trust.
C22_TrustedHeaderIsNeverOverridden ==
    RoundTripDone =>
        /\ TrustedHeader => probe.out[1].encoding = HeaderCharset
        /\ probe.out[1].encoding # HeaderCharset =>
              \/ HeaderCharset = <<>>
              \/ HeaderCharset \in {<<"iso-8859-1">>, <<"ascii">>}
        /\ ( /\ probe.args[4].encoding # <<>>
             /\ probe.out[1].encoding = probe.args[4].encoding ) =>
              /\ ~TrustedHeader
              /\ meta_encoding(EncodeUtf8(probe.args[1])) # <<"utf-8">>

\* the header says bogus, a meta tag says utf-8 and the detector is sure of
\* Windows-1252: the header's value is kept
C22_Witness ==
    /\ RoundTripDone
    /\ HeaderCharset = <<"bogus">>
    /\ meta_encoding(EncodeUtf8(probe.args[1])) = <<"utf-8">>
    /\ probe.args[4] = Detection(TRUE, FALSE, <<"Windows-1252">>, 90)
    /\ probe.out[1].encoding = <<"bogus">>

\* the number of bytes of the first n units of a payload
RECURSIVE BytesOf(_, _)
BytesOf(content, n) ==
    IF n = 0 THEN 0 ELSE BytesOf(content, n - 1) + UnitSize(content[n])

\* the first charset= of the payload says utf-8, in any letter case, and ends
\* within the first 2048 bytes
Utf8DeclaredInHead(content) ==
    \E i \in 1..Len(content) :
        /\ ~IsByte(content[i])
        /\ "charset" \in DOMAIN content[i].m.attrs
        /\ content[i].m.attrs["charset"] \in {<<"utf-8">>, <<"UTF-8">>}
        /\ \A j \in 1..(i - 1) : IsByte(content[j]) \/ "charset" \notin DOMAIN content[j].m.attrs
        /\ BytesOf(content, i) <= 2048

\* the detector does not qualify
DetectorSilent ==
    ~probe.args[4].installed \/ probe.args[4].raises \/ probe.args[4].confidence <= 70

\* C23: the meta stage changes the encoding only when the first charset it
\* finds in the first 2048 bytes of the decompressed payload is utf-8, in any
\* letter case; a charset with another value, or one after byte 2048, leaves
\* the encoding of the header stage as it was (shown with the detector
\* silent, so that the result is the header's value or the utf-8 default).
C23_MetaStageReadsFirst2048Bytes ==
    (RoundTripDone /\ DetectorSilent) =>
        /\ (~TrustedHeader /\ Utf8DeclaredInHead(EncodeUtf8(probe.args[1]))) =>
              probe.out[1].encoding = <<"utf-8">>
        /\ ~Utf8DeclaredInHead(EncodeUtf8(probe.args[1])) =>
              probe.out[1].encoding = IF HeaderCharset = <<>> THEN <<"utf-8">>
                                      ELSE HeaderCharset

\* a utf-8 declaration behind a 2048-byte comment is not seen: the header's
\* iso-8859-1 stays
C23_Witness ==
    /\ RoundTripDone /\ DetectorSilent
    /\ probe.args[1] = <<Elem("#comment", <<>>), MetaCharset(<<"utf-8">>)>>
    /\ HeaderCharset = <<"iso-8859-1">>
    /\ probe.out[1].encoding = <<"iso-8859-1">>

\* the decompressing stage has run
Decompressed == "decompressing" \in Range(trace)

\* the payload starts with the bytes 1F 8B
GzipMagic ==
    /\ Len(upstream.content) >= 2
    /\ upstream.content[1] = B(31)
    /\ upstream.content[2] = B(139)

\* the value of the Content-Encoding header of the response, <<>> if absent
ContentEncoding == HeadersGet(upstream.headers, "Content-Encoding")

\* C24: a payload whose first two bytes are 1F 8B is given to the gzip
\* decompressor whatever the Content-Encoding header says, and when it is the
\* gzip stream of a page the later stages process the page's bytes.
C24_GzipMagicDecidesDecompression ==
    (Decompressed /\ GzipMagic) =>
        /\ locals.tried = "gzip"
        /\ \A page \in {PageUtf8, PageLatin1, PageBadLink} :
              upstream.content = GzipCompress(page) =>
                  /\ locals.response_content = page
                  /\ Decoded => locals.html_content = decode_content(page, locals.encoding)

\* a gzip stream labelled br is gunzipped
C24_Witness ==
    /\ pc = "responded"
    /\ upstream.content = GzipCompress(PageUtf8)
    /\ ContentEncoding = <<"br">>
    /\ locals.tried = "gzip"
    /\ locals.response_content = PageUtf8
    /\ http[1].status = 200

\* the payload is the zlib stream of page (first bytes 78 9C), or its raw
\* DEFLATE stream sent with Content-Encoding: deflate
DeflateStreamOf(page) ==
    \/ upstream.content = ZlibCompress(page)
    \/ upstream.content = Deflate(page) /\ LowerVal(ContentEncoding) = <<"deflate">>

\* C25: a payload that is a deflate/zlib stream (first two bytes 78 9C or
\* 78 01, or Content-Encoding deflate) is detected and decompressed: the
\* later stages process the decompressed bytes.
C25_DeflateStreamIsDecompressed ==
    Decompressed =>
        \A page \in {PageUtf8, PageLatin1, PageBadLink} :
            DeflateStreamOf(page) =>
                /\ locals.tried = "deflate"
                /\ locals.response_content = page

\* C26: whenever the Content-Encoding header declares br, Brotli
\* decompression of the payload is attempted.
C26_BrotliAttemptedWheneverDeclared ==
    (Decompressed /\ LowerVal(ContentEncoding) = <<"br">>) => locals.tried = "br"

\* an <a>, <img>, <link>, <script> or <form> element without its listed
\* attribute
LacksListedAttribute(u) ==
    /\ IsElem(u)
    /\ u.tag \in {"a", "img", "link", "script", "form"}
    /\ ~HasListedAttribute(u)

\* C27: _rewrite_urls leaves untouched every <a>, <img>, <link>, <script>
\* and <form> element whose href/src/action attribute is absent or empty: an
\* absent attribute is not created and an empty value stays empty.
C27_AbsentAndEmptyAttributesAreKept ==
    Rewritten =>
        /\ SelectSeq(probe.out[1], LacksListedAttribute)
              = SelectSeq(probe.args[1], LacksListedAttribute)
        /\ \A i \in 1..Len(ListedElements(probe.args[1])) :
              LET before == ListedElements(probe.args[1])[i]
              IN  before.attrs[ListedAttribute(before)] = <<>> =>
                      ListedElements(probe.out[1])[i] = before

\* the <base> elements of a serialized document
BaseElements(html) == SelectSeq(html, LAMBDA u : IsElem(u) /\ u.tag = "base")

\* both applications of _rewrite_urls returned from their try block
RewrittenTwiceInTry ==
    /\ RewrittenTwice
    /\ rewrite_succeeds(probe.args[1], probe.args[2], probe.args[3])
    /\ rewrite_succeeds(probe.out[1], probe.args[2], probe.args[3])

\* C28: applying _rewrite_urls more than once with the same base_url to a
\* document with a <head> leaves exactly one <base> element and no
\* duplicated charset declaration: a second pass does not insert again.
C28_SecondPassInsertsNothing ==
    (RewrittenTwiceInTry /\ BeautifulSoup(probe.args[1]).head # None) =>
        /\ Len(BaseElements(probe.out[2])) = 1
        /\ Declarations(probe.out[2]) = Declarations(probe.out[1])

\* the payload starts with the bytes 78 9C or 78 01
DeflateMagic ==
    /\ Len(upstream.content) >= 2
    /\ upstream.content[1] = B(120)
    /\ upstream.content[2] \in {B(156), B(1)}

\* the decompressor that the precedence gzip, deflate, Brotli selects
Chosen ==
    IF GzipMagic THEN "gzip"
    ELSE IF DeflateMagic \/ LowerVal(ContentEncoding) \in {<<"deflate">>, <<"compress">>}
    THEN "deflate"
    ELSE IF LowerVal(ContentEncoding) = <<"br">> THEN "br"
    ELSE "none"

\* what the selected decompressor alone makes of the payload
ChosenOutcome ==
    IF Chosen = "gzip" THEN gzip_decompress(upstream.content)
    ELSE IF Chosen = "deflate" THEN zlib_decompress_raw(upstream.content)
    ELSE IF Chosen = "br" /\ locals.has_brotli THEN brotli_decompress(upstream.content)
    ELSE Failed

\* C29: one decompressor at most is tried per call, selected by gzip magic
\* bytes first, then deflate (magic bytes or header deflate/compress), then
\* Brotli (header br); when it fails no other decompressor is tried and the
\* raw bytes are passed on.
C29_OneDecompressorByPrecedence ==
    Decompressed =>
        /\ locals.tried = Chosen
        /\ locals.response_content =
               IF ChosenOutcome.ok THEN ChosenOutcome.data ELSE upstream.content

\* Brotli fails on a raw DEFLATE stream labelled br, and inflate is not tried
C29_Witness ==
    /\ pc = "responded"
    /\ upstream.content = Deflate(PageUtf8)
    /\ ContentEncoding = <<"br">>
    /\ locals.has_brotli
    /\ zlib_decompress_raw(upstream.content).ok
    /\ locals.tried = "br"
    /\ locals.response_content = upstream.content

(***************************************************************************)
(* stream_chat_response, the generator behind the streaming branch of     *)
(* chat_completions.  upstream is what the LLM client does (create raises *)
(* or returns a stream of chunks that ends or raises), locals.i the next   *)
(* chunk of the async for, net the SSE events yielded so far and pc the    *)
(* position of the generator.                                             *)
(***************************************************************************)
MaxChunks == 3

\* a chunk with one choice: delta.content and finish_reason
Chunk(content, finish_reason) ==
    [choices |-> <<[delta |-> [content |-> content], finish_reason |-> finish_reason]>>]

\* the chunks a stream can hold: a role chunk (content null), a finish chunk
\* (content null), text, the empty string, and a chunk without choices
ChunkKinds ==
    {Chunk(None, None),
     Chunk(None, Some(<<"stop">>)),
     Chunk(Some(<<"Hi">>), None),
     Chunk(Some(<<>>), None),
     [choices |-> <<>>]}

\* f"data: {json.dumps(data)}\n\n"
sse(data) == <<"data: ", data, "\n\n">>

\* the loop body yielding an event for a chunk whose content is null as well
chunk_events_for_null(chunk) ==
    <<sse([content |-> IF chunk.choices[1].delta.content # None
                       THEN chunk.choices[1].delta.content[1] ELSE None,
           finish_reason |-> chunk.choices[1].finish_reason])>>

\* the events the body of the async for yields for one chunk with a choice
chunk_events(chunk) ==
    IF chunk.choices[1].delta.content # None
    THEN <<sse([content |-> chunk.choices[1].delta.content[1],
                finish_reason |-> chunk.choices[1].finish_reason])>>
    ELSE <<>>

\* the done signal
done_event == sse([done |-> TRUE])

\* the event of the except clause: str(e)
error_event(e) == sse([error |-> e])

Streams ==
    {[create |-> "raises", chunks |-> <<>>, ending |-> "raises"]}
    \cup {[create |-> "ok", chunks |-> c, ending |-> e] :
             c \in UNION {[1..n -> ChunkKinds] : n \in 0..MaxChunks},
             e \in {"end", "raises"}}

InitStream ==
    /\ pc = "creating"
    /\ url = <<>>
    /\ upstream \in Streams
    /\ service = BrowserProxyService(None)
    /\ locals = [i |-> 1]
    /\ trace = <<>>
    /\ net = <<>>
    /\ result = None
    /\ raised = None
    /\ http = None
    /\ probe = Call("stream_chat_response", <<>>)

\* await client.chat.completions.create(**params)
CreateStream ==
    /\ pc = "creating"
    /\ IF upstream.create = "raises"
       THEN /\ net' = Append(net, error_event("APIConnectionError"))
            /\ pc' = "closing"
       ELSE /\ net' = net
            /\ pc' = "iterating"
    /\ UNCHANGED <<url, upstream, service, locals, trace, result, raised, http, probe>>

\* one turn of the async for; choices[0] of a chunk without choices raises
\* IndexError, which the except clause turns into the error event
NextChunk ==
    /\ pc = "iterating"
    /\ locals.i <= Len(upstream.chunks)
    /\ IF upstream.chunks[locals.i].choices = <<>>
       THEN /\ net' = Append(net, error_event("list index out of range"))
            /\ pc' = "closing"
            /\ locals' = locals
       ELSE /\ net' = net \o chunk_events(upstream.chunks[locals.i])
            /\ pc' = pc
            /\ locals' = [locals EXCEPT !.i = @ + 1]
    /\ UNCHANGED <<url, upstream, service, trace, result, raised, http, probe>>

\* the stream has no more chunks: it ends, and the done signal is yielded, or
\* it raises, and the except clause yields the error event
EndOfStream ==
    /\ pc = "iterating"
    /\ locals.i > Len(upstream.chunks)
    /\ net' = Append(net, IF upstream.ending = "raises" THEN error_event("APIError")
                          ELSE done_event)
    /\ pc' = "closing"
    /\ UNCHANGED <<url, upstream, service, locals, trace, result, raised, http, probe>>

\* the generator is resumed after its last yield and returns
CloseStream ==
    /\ pc = "closing"
    /\ pc' = "closed"
    /\ UNCHANGED <<url, upstream, service, locals, trace, net, result, raised, http, probe>>

NextStream == CreateStream \/ NextChunk \/ EndOfStream \/ CloseStream

\* the response keeps iterating the generator and the client answers
SpecStream == InitStream /\ [][NextStream]_vars /\ WF_vars(NextStream)

IsDone(event) == event = done_event
IsError(event) == "error" \in DOMAIN event[2]
IsFinal(event) == IsDone(event) \/ IsError(event)

\* the chunks before the first one that makes the loop body raise
RECURSIVE GoodPrefix(_)
GoodPrefix(chunks) ==
    IF chunks = <<>> \/ chunks[1].choices = <<>> THEN <<>>
    ELSE <<chunks[1]>> \o GoodPrefix(Tail(chunks))

\* the stream was created and went through all its chunks to a normal end
EndedWithoutException ==
    /\ upstream.create = "ok"
    /\ upstream.ending = "end"
    /\ GoodPrefix(upstream.chunks) = upstream.chunks

\* one content event per chunk whose content is not null, in order
RECURSIVE ContentEvents(_)
ContentEvents(chunks) ==
    IF chunks = <<>> THEN <<>>
    ELSE (IF chunks[1].choices[1].delta.content = None THEN <<>>
          ELSE <<sse([content |-> chunks[1].choices[1].delta.content[1],
                      finish_reason |-> chunks[1].choices[1].finish_reason])>>)
         \o ContentEvents(Tail(chunks))

\* the events yielded so far: at most one final event, and it is the last;
\* done only for a stream that ended without exception, after all its content
\* events; the content events are those of the chunks with content
StreamSafe ==
    /\ \A i \in 1..Len(net) : IsFinal(net[i]) => i = Len(net)
    /\ (pc \in {"closing", "closed"}) =
           (net # <<>> /\ IsFinal(net[Len(net)]))
    /\ (net # <<>> /\ IsDone(net[Len(net)])) =>
           /\ EndedWithoutException
           /\ SelectSeq(net, LAMBDA e : ~IsFinal(e)) = ContentEvents(upstream.chunks)
    /\ (net # <<>> /\ IsError(net[Len(net)])) => ~EndedWithoutException
    /\ pc \in {"closing", "closed"} =>
           SelectSeq(net, LAMBDA e : ~IsFinal(e))
               = ContentEvents(GoodPrefix(upstream.chunks))

====
